---- MODULE Spec2Model ----
(***************************************************************************)
(* Verification model of claude-code-mux: the /v1/messages dispatcher with *)
(* provider fallback and hot reload (src/server/mod.rs), the router        *)
(* (src/router/mod.rs), the provider registry (src/providers/registry.rs)  *)
(* and the OpenAI -> Anthropic streaming transformer                       *)
(* (src/providers/openai.rs).                                              *)
(***************************************************************************)
EXTENDS Integers, Sequences, FiniteSets, TLC

VARIABLES
    \* ---- hot reload (server/mod.rs AppState, reload_config) ----
    config_file,    \* content of the file at state.config_path
    inner,          \* AppState.inner: the active Arc<ReloadableState>
    next_id,        \* identity given to the next ReloadableState built
    reload_pc,      \* position of the reload_config handler
    reload_new,     \* the ReloadableState reload_config has built
    \* ---- one /v1/messages request (server/mod.rs handle_messages) ----
    rq_pc,          \* position of handle_messages
    rq,             \* the request as received (headers and body)
    snap,           \* `inner`, the snapshot taken by the request
    decision,       \* RouteDecision returned by Router::route
    routed,         \* request_for_routing after route ([system, messages])
    used,           \* identities of the states whose components were read
    sorted_mappings,\* the binding list of the request
    idx,            \* index of the binding being attempted
    calls,          \* adapter calls made for the request, in order
    responses,      \* responses returned to the client for the request
    \* ---- one OpenAI stream (providers/openai.rs send_message_stream) ----
    st_pc,          \* position of the stream pipeline
    state,          \* StreamTransformState
    events,         \* Anthropic SSE events emitted downstream, in order
    upstream,       \* what the upstream has delivered so far
    budget,         \* upstream items still allowed by the bound
    \* ---- OAuth tokens (auth/token_store.rs, get_auth_header) ----
    now,            \* Utc::now(), in minutes
    tokens,         \* TokenStore.tokens, the in-memory map
    token_file,     \* the file at TokenStore.file_path
    ts_log,         \* the save and remove calls on the store, in lock order
    ts_pending,     \* the calls of ts_log that have not persisted yet
    auth,           \* the adapter call that is authenticating
    expiry,         \* the last evaluation of is_expired and needs_refresh
    \* ---- translation of a request to OpenAI messages (transform_request) ----
    tr_pc,          \* position of the translation
    tr_request,     \* the Anthropic request (system and messages)
    openai_messages,\* the messages of the OpenAI request
    \* ---- round trip of a request through serde (models/mod.rs) ----
    sd_pc,          \* position of the round trip
    sd_input,       \* the JSON received
    sd_request,     \* the AnthropicRequest deserialized from it
    sd_output,      \* the JSON serialized from the request
    \* ---- one lookup of ProviderRegistry::get_provider_for_model ----
    lk_registry,    \* the registry
    lk_model,       \* the model asked for
    lk_result,      \* the adapter returned, or the error
    \* ---- one SseStream (providers/streaming.rs) ----
    sse_input,      \* the bytes of the upstream body
    sse_pos,        \* how many of them the inner stream has yielded
    sse_buffer,     \* SseStream.buffer
    event_queue,    \* SseStream.event_queue
    sse_emitted,    \* the events poll_next has returned, in order
    sse_done,       \* poll_next has returned None
    \* ---- thinking-block sanitization of one request (anthropic_compatible.rs) ----
    sn_pc,          \* position of send_message
    sn_request,     \* the messages of the request given to the adapter
    sn_target,      \* is_anthropic: base_url contains "anthropic.com"
    sn_upstream,    \* the messages of the upstream request
    \* ---- AppState, the fields outside `inner` (server/mod.rs) ----
    persistent,     \* token_store, config_path and message_tracer
    \* ---- the lock of the token store (auth/token_store.rs) ----
    ts_serialized,  \* the calls holding the read lock in persist(), with their JSON
    ts_read,        \* what a get() of another thread returned
    \* ---- one LoggingSseStream (providers/streaming.rs) ----
    lg_input,       \* the bytes of the upstream body
    lg_pos,         \* how many of them the inner stream has yielded
    lg_buffer,      \* LoggingSseStream.buffer
    lg_stats,       \* logged_message_start and the four token counters
    lg_logged,      \* the counters of the final log line, None before it
    \* ---- concurrent adapter calls that authenticate (get_auth_header) ----
    rf,             \* position and local values of each call
    rf_sent,        \* the refresh exchanges sent to the token endpoint, in order
    \* ---- concurrent reload_config handlers (server/mod.rs) ----
    rl,             \* position and local values of each handler
    cf_version,     \* how many times the config file has been rewritten
    rl_installs     \* the file versions whose state was installed, in order

reloadVars == <<config_file, inner, next_id, reload_pc, reload_new>>
requestVars == <<rq_pc, rq, snap, decision, routed, used, sorted_mappings, idx, calls, responses>>
streamVars == <<st_pc, state, events, upstream, budget>>
authVars == <<now, tokens, token_file, ts_log, ts_pending, auth, expiry>>
translateVars == <<tr_pc, tr_request, openai_messages>>
serdeVars == <<sd_pc, sd_input, sd_request, sd_output>>
lookupVars == <<lk_registry, lk_model, lk_result>>
sseVars == <<sse_input, sse_pos, sse_buffer, event_queue, sse_emitted, sse_done>>
sanitizeVars == <<sn_pc, sn_request, sn_target, sn_upstream>>
appVars == <<persistent>>
lockVars == <<ts_serialized, ts_read>>
logVars == <<lg_input, lg_pos, lg_buffer, lg_stats, lg_logged>>
refreshVars == <<rf, rf_sent>>
reloadersVars == <<rl, cf_version, rl_installs>>
moreVars == <<refreshVars, reloadersVars>>
laterVars == <<sanitizeVars, appVars, lockVars, logVars, moreVars>>
adapterVars == <<authVars, translateVars, serdeVars, lookupVars, sseVars, laterVars>>
coreVars == <<reloadVars, requestVars, streamVars>>
outsideAuth == <<coreVars, translateVars, serdeVars, lookupVars, sseVars, laterVars>>
outsideTranslate == <<coreVars, authVars, serdeVars, lookupVars, sseVars, laterVars>>
outsideSerde == <<coreVars, authVars, translateVars, lookupVars, sseVars, laterVars>>
outsideLookup == <<coreVars, authVars, translateVars, serdeVars, sseVars, laterVars>>
outsideSse == <<coreVars, authVars, translateVars, serdeVars, lookupVars, laterVars>>
outsideSanitize == <<coreVars, authVars, translateVars, serdeVars, lookupVars, sseVars, appVars, lockVars, logVars, moreVars>>
outsideLog == <<coreVars, authVars, translateVars, serdeVars, lookupVars, sseVars, sanitizeVars, appVars, lockVars, moreVars>>
vars == <<reloadVars, requestVars, streamVars, adapterVars>>

-----------------------------------------------------------------------------
(* Bounds *)

\* number of reloads that install a new state
MaxReloads == 2
\* number of upstream SSE items of one stream
MaxChunks == 3
\* number of save and remove calls on the token store
MaxStoreCalls == 3
\* minutes the clock runs for
MaxTime == 6
\* number of adapter calls that authenticate
MaxAuthRequests == 2
\* number of messages of a translated request
MaxMessages == 2
\* number of content blocks of a message that goes through serde
MaxBlocks == 2

-----------------------------------------------------------------------------
(* Small helpers *)

\* Option::None for string-valued options
NoneStr == "<none>"

Last(s) == s[Len(s)]

\* the line feed
LF == "\n"

RECURSIVE SeqToSet(_)
SeqToSet(s) == IF s = <<>> THEN {} ELSE {Head(s)} \cup SeqToSet(Tail(s))

\* ---- str operations, computed on the characters of the string ----

\* the characters of a string, as a set of one-character strings
CharsOf(s) == {SubSeq(s, i, i) : i \in 1..Len(s)}

\* the rest of s from position i (1-based)
From(s, i) == SubSeq(s, i, Len(s))

\* str::starts_with
StartsWith(s, p) == Len(s) >= Len(p) /\ SubSeq(s, 1, Len(p)) = p

\* str::find: the first position (1-based) where p occurs, 0 when none
Find(s, p) ==
    LET hits == {i \in 1..(Len(s) - Len(p) + 1) : SubSeq(s, i, i + Len(p) - 1) = p}
    IN IF hits = {} THEN 0 ELSE CHOOSE i \in hits : \A j \in hits : i <= j

\* str::contains
Contains(s, p) == Find(s, p) # 0

\* str::trim (the white space of the model is the blank)
RECURSIVE TrimStart(_)
TrimStart(s) == IF s # "" /\ Head(s) = " " THEN TrimStart(Tail(s)) ELSE s
RECURSIVE TrimEnd(_)
TrimEnd(s) ==
    IF s # "" /\ SubSeq(s, Len(s), Len(s)) = " "
    THEN TrimEnd(SubSeq(s, 1, Len(s) - 1)) ELSE s
Trim(s) == TrimEnd(TrimStart(s))

\* the length of the longest prefix of s made of characters of class
RECURSIVE RunLength(_, _)
RunLength(s, class) ==
    IF s # "" /\ Head(s) \in class THEN 1 + RunLength(Tail(s), class) ELSE 0

\* [&str].join(sep)
RECURSIVE Join(_, _)
Join(texts, sep) ==
    IF texts = <<>> THEN ""
    ELSE IF Len(texts) = 1 THEN texts[1]
    ELSE texts[1] \o sep \o Join(Tail(texts), sep)

\* str::trim().is_empty()
BlankTexts == {"", "  "}
TrimIsEmpty(s) == Trim(s) = ""

\* Iterator::next on an ascending walk: the least position of a set
MinOf(S) == CHOOSE i \in S : \A j \in S : i <= j

\* str::eq_ignore_ascii_case on the model names of the model
AsciiLower(s) ==
    CASE s = "DEF.M" -> "def.m"
      [] s = "Legacy.M" -> "legacy.m"
      [] OTHER -> s
EqIgnoreAsciiCase(a, b) == AsciiLower(a) = AsciiLower(b)

\* Regex::is_match for the patterns and model names of the model
ClaudeDefaultPattern == "^claude-"
HaikuDefaultPattern == "(?i)claude.*haiku"
InvalidPattern == "("
RegexIsMatch(pattern, s) ==
    CASE pattern = "^claude-" -> s \in {"claude-opus-4", "claude-3-5-haiku"}
      [] pattern = "(?i)claude.*haiku" -> s \in {"claude-3-5-haiku"}
      [] pattern = "^legacy" -> s \in {"legacy.m"}
      [] OTHER -> FALSE

-----------------------------------------------------------------------------
(* Messages (models/mod.rs) *)

Block(type, text) == [type |-> type, text |-> text]
TextContent(text) == [t |-> "Text", text |-> text, blocks |-> <<>>]
BlocksContent(blocks) == [t |-> "Blocks", text |-> "", blocks |-> blocks]
Message(role, content) == [role |-> role, content |-> content]

\* ContentBlock::is_tool_result
is_tool_result(b) == b.type = "tool_result"
\* ContentBlock::as_text is Some
is_text(b) == b.type = "text"

continuation == "<system-reminder>If you have an active todo list, remember to mark items complete and continue to the next. Do not mention this reminder.</system-reminder>"

\* should_inject_continuation, with the has_text test inverted on blank text
should_inject_continuation_blank(msg) ==
    LET has_tool_results ==
            /\ msg.content.t = "Blocks"
            /\ \E i \in 1..Len(msg.content.blocks) : is_tool_result(msg.content.blocks[i])
        has_text ==
            IF msg.content.t = "Text"
            THEN msg.content.text # ""
            ELSE \E i \in 1..Len(msg.content.blocks) :
                    is_text(msg.content.blocks[i]) /\ msg.content.blocks[i].text # ""
    IN has_tool_results /\ ~has_text

should_inject_continuation(msg) ==
    LET has_tool_results ==
            /\ msg.content.t = "Blocks"
            /\ \E i \in 1..Len(msg.content.blocks) : is_tool_result(msg.content.blocks[i])
        has_text ==
            IF msg.content.t = "Text"
            THEN ~TrimIsEmpty(msg.content.text)
            ELSE \E i \in 1..Len(msg.content.blocks) :
                    is_text(msg.content.blocks[i]) /\ ~TrimIsEmpty(msg.content.blocks[i].text)
    IN has_tool_results /\ ~has_text

inject_continuation_text(msg) ==
    IF msg.content.t = "Text"
    THEN [msg EXCEPT !.content =
            BlocksContent(<<Block("text", continuation), Block("text", msg.content.text)>>)]
    ELSE [msg EXCEPT !.content =
            BlocksContent(<<Block("text", continuation)>> \o msg.content.blocks)]

-----------------------------------------------------------------------------
(* Configuration (AppConfig), as read from the config file *)

ModelMapping(pr, prov, am, inj) ==
    [priority |-> pr, provider |-> prov, actual_model |-> am,
     inject_continuation_prompt |-> inj]

ProviderConfig(n, ty, ms, en) ==
    [name |-> n, provider_type |-> ty, models |-> ms, enabled |-> en]

PromptRule(pattern, model, strip_match) ==
    [pattern |-> pattern, model |-> model, strip_match |-> strip_match]

\* the pattern of a directive that names the model, and its named form
DirectivePattern == "CCM-MODEL:([a-z0-9._-]+)"
NamedDirectivePattern == "M=(?P<m>[a-z0-9._-]+)"

\* def.m lists its bindings out of priority order, with a tie and with a
\* binding (pC) whose provider is disabled; pA still lists a legacy model.
ConfigA ==
    [router |-> [default |-> "def.m", background |-> "bg.m", think |-> NoneStr,
                 websearch |-> "ws.m", auto_map_regex |-> NoneStr,
                 background_regex |-> "", prompt_rules |-> <<>>],
     models |-> << [name |-> "def.m", mappings |->
                        << ModelMapping(2, "pB", "b-def", FALSE),
                           ModelMapping(3, "pC", "c-def", TRUE),
                           ModelMapping(1, "pA", "a-def", TRUE),
                           ModelMapping(2, "pD", "d-def", TRUE) >>],
                    [name |-> "bg.m", mappings |->
                        << ModelMapping(1, "pA", "a-bg", TRUE) >>] >>,
     providers |-> << ProviderConfig("pA", "openai", {"legacy.m"}, TRUE),
                      ProviderConfig("pB", "anthropic", {"Legacy.M"}, TRUE),
                      ProviderConfig("pC", "openai", {}, FALSE),
                      ProviderConfig("pD", "openai", {}, TRUE) >>]

\* no background model, a think model, a custom auto-map pattern, an invalid
\* background pattern, a logical model without bindings, and one prompt rule
ConfigB ==
    [router |-> [default |-> "alt.m", background |-> NoneStr, think |-> "th.m",
                 websearch |-> NoneStr, auto_map_regex |-> "^legacy",
                 background_regex |-> InvalidPattern,
                 prompt_rules |-> << PromptRule(DirectivePattern, "$1", TRUE) >>],
     models |-> << [name |-> "alt.m", mappings |->
                        << ModelMapping(5, "pB", "b-alt", TRUE),
                           ModelMapping(4, "pA", "a-alt", FALSE) >>],
                    [name |-> "th.m", mappings |-> <<>>] >>,
     providers |-> << ProviderConfig("pB", "anthropic", {}, TRUE),
                      ProviderConfig("pA", "openai", {}, TRUE) >>]

\* a configuration whose provider registry cannot be built
ConfigC ==
    [router |-> ConfigA.router,
     models |-> ConfigA.models,
     providers |-> << ProviderConfig("pA", "bogus", {}, TRUE) >>]

\* every route configured, and prompt rules: one whose pattern does not
\* compile, static ones with and without strip_match, one template for each
\* form of reference, and a rule whose pattern an earlier rule already has
ConfigD ==
    [router |-> [default |-> "def.m", background |-> "bg.m", think |-> "th.m",
                 websearch |-> "ws.m", auto_map_regex |-> "",
                 background_regex |-> NoneStr,
                 prompt_rules |->
                    << PromptRule(InvalidPattern, "bad.m", FALSE),
                       PromptRule("FAST", "fast.m", FALSE),
                       PromptRule("OPUS", "opus.m", TRUE),
                       PromptRule(DirectivePattern, "$1", TRUE),
                       PromptRule(NamedDirectivePattern, "or/${m}", TRUE),
                       PromptRule("N=([a-z0-9._-]+)", "${1}-x", FALSE),
                       PromptRule("P=(?P<p>[a-z0-9._-]+)", "$p", FALSE),
                       PromptRule("OPUS", "late.m", FALSE) >>],
     models |-> ConfigA.models,
     providers |-> ConfigA.providers]

\* contents the config file can have; the last one does not parse
FileContents == {"A", "B", "C", "garbage"}
ParsedConfig(f) ==
    CASE f = "A" -> ConfigA
      [] f = "B" -> ConfigB
      [] f = "C" -> ConfigC
      [] f = "D" -> ConfigD

KnownProviderTypes == {"openai", "anthropic", "gemini", "vertex-ai"}

-----------------------------------------------------------------------------
(* Provider registry (providers/registry.rs) *)

\* supports_model of the OpenAI adapter: exact equality
openai_supports_model(models, model) == model \in models
\* supports_model of the Anthropic-compatible adapter
anthropic_supports_model(models, model) ==
    \E m \in models : EqIgnoreAsciiCase(m, model)

supports_model(provider, model) ==
    IF provider.provider_type = "anthropic"
    THEN anthropic_supports_model(provider.models, model)
    ELSE openai_supports_model(provider.models, model)

EnabledProviders(cfg) ==
    {cfg.providers[i] : i \in {j \in 1..Len(cfg.providers) : cfg.providers[j].enabled}}

\* from_configs_with_models returns Err for an unknown provider_type
RegistryBuilds(cfg) ==
    \A p \in EnabledProviders(cfg) : p.provider_type \in KnownProviderTypes

\* ProviderRegistry: providers (name -> adapter) and model_to_provider
from_configs_with_models(cfg) ==
    [providers |-> EnabledProviders(cfg),
     model_to_provider |->
        {<<cfg.models[i].name, cfg.models[i].mappings[1].provider>> :
            i \in {j \in 1..Len(cfg.models) : cfg.models[j].mappings # <<>>}}]

\* get_provider(name) is Some
has_provider(registry, name) == \E p \in registry.providers : p.name = name

\* get_provider_for_model: the set of adapters it can return (the scan
\* follows HashMap order); empty when it returns Err(ModelNotSupported)
get_provider_for_model(registry, model) ==
    LET mapped == {p \in registry.providers :
                      \E e \in registry.model_to_provider : e[1] = model /\ e[2] = p.name}
    IN IF mapped # {} THEN mapped
       ELSE {p \in registry.providers : supports_model(p, model)}

-----------------------------------------------------------------------------
(* Router (router/mod.rs) *)

\* ---- the regex crate, on the pattern shapes of the prompt rules ----

\* the one character class of the patterns, and its characters
ClassSource == "[a-z0-9._-]+"
ClassChars == CharsOf("abcdefghijklmnopqrstuvwxyz0123456789._-")
\* \w, the characters of a group name in a template
WordChars == CharsOf("abcdefghijklmnopqrstuvwxyzABCDEFGHIJKLMNOPQRSTUVWXYZ0123456789_")
DigitChars == CharsOf("0123456789")
MetaChars == CharsOf("()[]{}.*+?|^$")

\* Regex::new(pattern): a literal, or a literal followed by one capture
\* group, numbered (..) or named (?P<name>..), over ClassSource; ok is
\* FALSE when Regex::new returns Err
Regex_new(pattern) ==
    LET open == Find(pattern, "(")
        literal == IF open = 0 THEN pattern ELSE SubSeq(pattern, 1, open - 1)
        rest == IF open = 0 THEN "" ELSE From(pattern, open + 1)
        named == StartsWith(rest, "?P<")
        close == IF named THEN Find(rest, ">") ELSE 0
        name == IF named /\ close > 4 THEN SubSeq(rest, 4, close - 1) ELSE NoneStr
        body == IF named THEN From(rest, close + 1) ELSE rest
    IN [ok |-> /\ CharsOf(literal) \cap MetaChars = {}
               /\ open # 0 => body = ClassSource \o ")"
               /\ named => name # NoneStr,
        source |-> pattern,
        literal |-> literal,
        has_group |-> open # 0,
        group_name |-> name]

\* the length of the match of regex that starts at the first character of
\* s, -1 when there is none (the group is greedy)
MatchLength(regex, s) ==
    IF ~StartsWith(s, regex.literal) THEN -1
    ELSE IF ~regex.has_group THEN Len(regex.literal)
    ELSE LET n == RunLength(From(s, Len(regex.literal) + 1), ClassChars)
         IN IF n = 0 THEN -1 ELSE Len(regex.literal) + n

NoCaptures == [found |-> FALSE, whole |-> "", group |-> NoneStr, group_name |-> NoneStr]

\* Regex::captures: the leftmost match, its text (group 0) and its group
Regex_captures(regex, s) ==
    LET hits == {i \in 1..Len(s) : MatchLength(regex, From(s, i)) >= 0}
    IN IF hits = {} THEN NoCaptures
       ELSE LET i == CHOOSE h \in hits : \A j \in hits : h <= j
                n == MatchLength(regex, From(s, i))
            IN [found |-> TRUE,
                whole |-> SubSeq(s, i, i + n - 1),
                group |-> IF regex.has_group
                          THEN SubSeq(s, i + Len(regex.literal), i + n - 1)
                          ELSE NoneStr,
                group_name |-> regex.group_name]

\* Regex::replace_all(s, ""): every non-overlapping match removed
RECURSIVE Regex_replace_all(_, _)
Regex_replace_all(regex, s) ==
    IF s = "" THEN ""
    ELSE LET n == MatchLength(regex, s)
         IN IF n > 0 THEN Regex_replace_all(regex, From(s, n + 1))
            ELSE Head(s) \o Regex_replace_all(regex, Tail(s))

\* the text Captures::expand puts for the reference called name: group 0 or
\* 1 for a number, the group of that name, "" for a group that is missing
GroupText(captures, name) ==
    IF name # "" /\ CharsOf(name) \subseteq DigitChars
    THEN IF name = "0" THEN captures.whole
         ELSE IF name = "1" /\ captures.group # NoneStr THEN captures.group
         ELSE ""
    ELSE IF name # "" /\ name = captures.group_name THEN captures.group
    ELSE ""

\* the reference at the head of r (r begins with "$"): ${name} up to the
\* closing brace, or $ followed by the longest run of word characters;
\* end = 0 when there is no reference
find_cap_ref(r) ==
    LET none == [end |-> 0, name |-> ""]
    IN IF Len(r) < 2 THEN none
       ELSE IF SubSeq(r, 2, 2) = "{"
       THEN LET c == Find(r, "}")
            IN IF c = 0 THEN none ELSE [end |-> c, name |-> SubSeq(r, 3, c - 1)]
       ELSE LET n == RunLength(From(r, 2), WordChars)
            IN IF n = 0 THEN none ELSE [end |-> 1 + n, name |-> SubSeq(r, 2, 1 + n)]

\* expand_model_template that returns the template as it is written
expand_model_template_literal(template, captures) == template

\* Router::expand_model_template: Captures::expand on the template
RECURSIVE expand_model_template(_, _)
expand_model_template(template, captures) ==
    LET d == Find(template, "$")
        before == SubSeq(template, 1, d - 1)
        r == From(template, d)
        ref == find_cap_ref(r)
    IN IF d = 0 THEN template
       ELSE IF Len(r) >= 2 /\ SubSeq(r, 2, 2) = "$"
       THEN before \o "$" \o expand_model_template(From(r, 3), captures)
       ELSE IF ref.end = 0
       THEN before \o "$" \o expand_model_template(From(r, 2), captures)
       ELSE before \o GroupText(captures, ref.name)
                   \o expand_model_template(From(r, ref.end + 1), captures)

\* contains_capture_reference: s has a "$" and CAPTURE_REF_PATTERN matches
contains_capture_reference(s) ==
    /\ Contains(s, "$")
    /\ \E i \in 1..(Len(s) - 1) :
        /\ SubSeq(s, i, i) = "$"
        /\ LET next == SubSeq(s, i + 1, i + 1)
           IN \/ next \in DigitChars
              \/ next \in WordChars \ DigitChars
              \/ next = "{" /\ Find(From(s, i + 2), "}") >= 2

\* Router::new without the default pattern
CompilePattern_as_given(pattern, default) == pattern

\* Router::new: an absent, empty or invalid pattern falls back to the default
CompilePattern(pattern, default) ==
    IF pattern \in {NoneStr, "", InvalidPattern} THEN default ELSE pattern

\* Router::new, prompt rules: a rule whose pattern does not compile is skipped
CompiledPromptRule(rule) ==
    [regex |-> Regex_new(rule.pattern), model |-> rule.model,
     strip_match |-> rule.strip_match,
     is_dynamic |-> contains_capture_reference(rule.model)]

RuleCompiles(rule) == Regex_new(rule.pattern).ok

Router_new(cfg) ==
    [config |-> cfg,
     auto_map_regex |-> CompilePattern(cfg.router.auto_map_regex, ClaudeDefaultPattern),
     background_regex |-> CompilePattern(cfg.router.background_regex, HaikuDefaultPattern),
     prompt_rules |->
        LET kept == SelectSeq(cfg.router.prompt_rules, RuleCompiles)
        IN [i \in 1..Len(kept) |-> CompiledPromptRule(kept[i])]]

\* has_web_search_tool: some tool type starts with "web_search"
WebSearchToolTypes == {"web_search", "web_search_20250305"}
\* has_web_search_tool with the tool type compared for equality
has_web_search_tool_exact(request) ==
    \E i \in 1..Len(request.tools) : request.tools[i] = "web_search"

has_web_search_tool(request) ==
    \E i \in 1..Len(request.tools) : StartsWith(request.tools[i], "web_search")

is_plan_mode(request) == request.thinking = "enabled"

is_background_task(router, model) == RegexIsMatch(router.background_regex, model)

\* system prompt: <<>> (None), or one SystemPrompt
SystemText(text) == [t |-> "Text", text |-> text, blocks |-> <<>>]
SystemBlocks(blocks) == [t |-> "Blocks", text |-> "", blocks |-> blocks]
SystemBlock(text) == [type |-> "text", text |-> text]

\* the opening and the closing tag, and a tag around a name
OpenTag == "<CCM-SUBAGENT-MODEL>"
CloseTag == "</CCM-SUBAGENT-MODEL>"
Tag(name) == OpenTag \o name \o CloseTag

\* system texts: one tag, a tag left open, two tags, a tag cut in two by
\* another tag, a tag without a name, and a tag written over three lines
TaggedText == "ctx <CCM-SUBAGENT-MODEL>DEF.M</CCM-SUBAGENT-MODEL>"
UnclosedTagText == "ctx <CCM-SUBAGENT-MODEL>DEF.M"
TwoTagsText == Tag("DEF.M") \o " and " \o Tag("bg.m")
RejoinedTagText == "<CCM-SUB" \o Tag("x") \o "AGENT-MODEL>bg.m" \o CloseTag
EmptyTagText == "ctx " \o Tag("")
SplitTagText == OpenTag \o LF \o "DEF.M" \o LF \o CloseTag

\* str::contains("<CCM-SUBAGENT-MODEL>")
ContainsOpeningTag(text) == Contains(text, OpenTag)

\* the length of the match of <CCM-SUBAGENT-MODEL>(.*?)</CCM-SUBAGENT-MODEL>
\* that starts at the first character of s, -1 when there is none: the
\* group is lazy and "." matches no line feed
TagMatchLength(s) ==
    IF ~StartsWith(s, OpenTag) THEN -1
    ELSE IF Find(From(s, Len(OpenTag) + 1), CloseTag) = 0 THEN -1
    ELSE IF Contains(SubSeq(s, Len(OpenTag) + 1,
                            Len(OpenTag) + Find(From(s, Len(OpenTag) + 1), CloseTag) - 1), LF)
    THEN -1
    ELSE Len(OpenTag) + Find(From(s, Len(OpenTag) + 1), CloseTag) - 1 + Len(CloseTag)

\* the positions of text where the pattern matches
TagMatches(text) == {i \in 1..Len(text) : TagMatchLength(From(text, i)) >= 0}

\* Regex::captures(text).get(1): group 1 of the leftmost match, None when
\* the pattern does not match
TagCaptureAt(text, i) ==
    SubSeq(text, i + Len(OpenTag), i + TagMatchLength(From(text, i)) - Len(CloseTag) - 1)
TagCapture(text) ==
    IF TagMatches(text) = {} THEN NoneStr ELSE TagCaptureAt(text, MinOf(TagMatches(text)))

\* Regex::replace_all(text, ""): every non-overlapping match removed, in
\* one pass from the left
RECURSIVE RemoveTag(_)
RemoveTag(text) ==
    IF text = "" THEN ""
    ELSE IF TagMatchLength(text) > 0 THEN RemoveTag(From(text, TagMatchLength(text) + 1))
    ELSE Head(text) \o RemoveTag(Tail(text))

\* extract_subagent_model without the fallback to the tag value as a direct
\* model name: the tag is removed, None is returned for an unconfigured name
extract_subagent_model_configured_only(router, request) ==
    LET no == [model |-> NoneStr, request |-> request]
        models == router.config.models
    IN  IF request.system = <<>> THEN no
        ELSE IF request.system[1].t # "Blocks" THEN no
        ELSE IF Len(request.system[1].blocks) < 2 THEN no
        ELSE LET text == request.system[1].blocks[2].text
                 tag_value == TagCapture(text)
                 stripped == [request EXCEPT !.system[1].blocks[2].text = RemoveTag(text)]
                 hits == {i \in 1..Len(models) : EqIgnoreAsciiCase(models[i].name, tag_value)}
             IN  IF ~ContainsOpeningTag(text) THEN no
                 ELSE IF tag_value = NoneStr THEN no
                 ELSE IF hits # {}
                 THEN [model |-> models[CHOOSE i \in hits : \A j \in hits : i <= j].name,
                       request |-> stripped]
                 ELSE [model |-> NoneStr, request |-> stripped]

\* extract_subagent_model: the model named by the tag of system[1] (None
\* when there is none) and the request with the tag removed
extract_subagent_model(router, request) ==
    LET no == [model |-> NoneStr, request |-> request]
        models == router.config.models
    IN  IF request.system = <<>> THEN no
        ELSE IF request.system[1].t # "Blocks" THEN no
        ELSE IF Len(request.system[1].blocks) < 2 THEN no
        ELSE LET text == request.system[1].blocks[2].text
                 tag_value == TagCapture(text)
                 stripped == [request EXCEPT !.system[1].blocks[2].text = RemoveTag(text)]
                 hits == {i \in 1..Len(models) : EqIgnoreAsciiCase(models[i].name, tag_value)}
             IN  IF ~ContainsOpeningTag(text) THEN no
                 ELSE IF tag_value = NoneStr THEN no
                 ELSE IF hits # {}
                 THEN [model |-> models[CHOOSE i \in hits : \A j \in hits : i <= j].name,
                       request |-> stripped]
                 ELSE [model |-> tag_value, request |-> stripped]

\* the assistant message has a tool_use block
has_tool_use(msg) ==
    /\ msg.content.t = "Blocks"
    /\ \E i \in 1..Len(msg.content.blocks) : msg.content.blocks[i].type = "tool_use"

\* find_turn_start_index that never finds the end of a previous turn
find_turn_start_index_zero(request) == 0

\* find_turn_start_index: one past the (0-based) index of the last assistant
\* message without tool_use, 0 when there is none
find_turn_start_index(request) ==
    LET ends == {i \in 1..Len(request.messages) :
                    /\ request.messages[i].role = "assistant"
                    /\ ~has_tool_use(request.messages[i])}
    IN IF ends = {} THEN 0 ELSE CHOOSE i \in ends : \A j \in ends : j <= i

\* text.trim().starts_with("<system-reminder>")
IsReminderText(text) == StartsWith(Trim(text), "<system-reminder>")

IsPromptTextBlock(b) == is_text(b) /\ ~IsReminderText(b.text)

\* the texts of the text blocks that are no system-reminder, joined by " "
JoinedBlockText(blocks) ==
    LET kept == SelectSeq(blocks, IsPromptTextBlock)
    IN Join([i \in 1..Len(kept) |-> kept[i].text], " ")

\* the text content of a user message of the turn, None when it has none
turn_text_content(msg) ==
    IF msg.content.t = "Text"
    THEN IF Trim(msg.content.text) # "" /\ ~IsReminderText(msg.content.text)
         THEN msg.content.text ELSE NoneStr
    ELSE IF Trim(JoinedBlockText(msg.content.blocks)) = "" THEN NoneStr
         ELSE JoinedBlockText(msg.content.blocks)

\* extract_last_user_message
extract_last_user_message(request) ==
    LET users == {i \in 1..Len(request.messages) : request.messages[i].role = "user"}
        msg == request.messages[CHOOSE i \in users : \A j \in users : j <= i]
    IN IF users = {} THEN NoneStr
       ELSE IF msg.content.t = "Text"
       THEN IF IsReminderText(msg.content.text) THEN NoneStr ELSE msg.content.text
       ELSE IF JoinedBlockText(msg.content.blocks) = "" THEN NoneStr
            ELSE JoinedBlockText(msg.content.blocks)

\* the positions (1-based) of the user messages of the turn that have text
TurnTextPositions(request) ==
    {i \in (find_turn_start_index(request) + 1)..Len(request.messages) :
        /\ request.messages[i].role = "user"
        /\ turn_text_content(request.messages[i]) # NoneStr}

\* extract_turn_starting_user_message reading the last user message only
extract_turn_starting_user_message_last(request) == extract_last_user_message(request)

\* extract_turn_starting_user_message: the text of the first user message of
\* the turn that has text, the last user message when found is empty
extract_turn_starting_user_message(request) ==
    IF TurnTextPositions(request) # {}
    THEN turn_text_content(request.messages[MinOf(TurnTextPositions(request))])
    ELSE extract_last_user_message(request)

\* regex.replace_all(text, "") on the text, or on every text block
strip_message(msg, regex) ==
    IF msg.content.t = "Text"
    THEN [msg EXCEPT !.content.text = Regex_replace_all(regex, @)]
    ELSE [msg EXCEPT !.content.blocks =
            [i \in 1..Len(@) |->
                IF is_text(@[i])
                THEN [@[i] EXCEPT !.text = Regex_replace_all(regex, @)]
                ELSE @[i]]]

\* has_text of strip_match_from_turn_starting_message
strip_has_text(msg) ==
    IF msg.content.t = "Text"
    THEN Trim(msg.content.text) # "" /\ ~IsReminderText(msg.content.text)
    ELSE \E i \in 1..Len(msg.content.blocks) :
            /\ is_text(msg.content.blocks[i])
            /\ Trim(msg.content.blocks[i].text) # ""
            /\ ~IsReminderText(msg.content.blocks[i].text)

\* strip_match_from_last_user_message
strip_match_from_last_user_message(request, regex) ==
    LET users == {i \in 1..Len(request.messages) : request.messages[i].role = "user"}
        last == CHOOSE i \in users : \A j \in users : j <= i
    IN IF users = {} THEN request
       ELSE [request EXCEPT !.messages[last] = strip_message(@, regex)]

\* the positions (1-based) of the user messages of the turn that has_text holds for
StripPositions(request) ==
    {i \in (find_turn_start_index(request) + 1)..Len(request.messages) :
        /\ request.messages[i].role = "user"
        /\ strip_has_text(request.messages[i])}

\* strip_match_from_turn_starting_message
strip_match_from_turn_starting_message(request, regex) ==
    IF StripPositions(request) # {}
    THEN [request EXCEPT !.messages[MinOf(StripPositions(request))] = strip_message(@, regex)]
    ELSE strip_match_from_last_user_message(request, regex)

\* the body of the loop of match_prompt_rule for a rule that matched
ApplyRule(rule, request, captures) ==
    [model |-> IF rule.is_dynamic
               THEN expand_model_template(rule.model, captures)
               ELSE rule.model,
     matched |-> captures.whole,
     request |-> IF rule.strip_match
                 THEN strip_match_from_turn_starting_message(request, rule.regex)
                 ELSE request]

\* the rules whose pattern matches the text, by position
RuleHits(rules, user_content) ==
    {i \in 1..Len(rules) : Regex_captures(rules[i].regex, user_content).found}

\* the loop of match_prompt_rule: the first rule that matches decides
MatchRules(rules, request, user_content) ==
    IF user_content = NoneStr \/ RuleHits(rules, user_content) = {}
    THEN [model |-> NoneStr, matched |-> NoneStr, request |-> request]
    ELSE ApplyRule(rules[MinOf(RuleHits(rules, user_content))], request,
                   Regex_captures(rules[MinOf(RuleHits(rules, user_content))].regex,
                                  user_content))

\* match_prompt_rule taking the rule declared last among those that match
match_prompt_rule_last(router, request) ==
    LET none == [model |-> NoneStr, matched |-> NoneStr, request |-> request]
        user_content == extract_turn_starting_user_message(request)
        rules == router.prompt_rules
        hits == {i \in 1..Len(rules) : Regex_captures(rules[i].regex, user_content).found}
        rule == rules[CHOOSE i \in hits : \A j \in hits : j <= i]
        captures == Regex_captures(rule.regex, user_content)
    IN IF rules = <<>> THEN none
       ELSE IF user_content = NoneStr THEN none
       ELSE IF hits = {} THEN none
       ELSE [model |-> IF rule.is_dynamic
                       THEN expand_model_template(rule.model, captures)
                       ELSE rule.model,
             matched |-> captures.whole,
             request |-> IF rule.strip_match
                         THEN strip_match_from_turn_starting_message(request, rule.regex)
                         ELSE request]

\* match_prompt_rule: the model and the matched text of the first rule that
\* matches the turn-starting message (None when there is none), and the
\* request as mutated
match_prompt_rule(router, request) ==
    MatchRules(router.prompt_rules, request, extract_turn_starting_user_message(request))

RouteDecision(m, ty, mp) == [model_name |-> m, route_type |-> ty, matched_prompt |-> mp]

\* route, step 0: the model name rewritten when auto_map_regex matches
AutoMapped(router, request0) ==
    IF RegexIsMatch(router.auto_map_regex, request0.model)
    THEN [request0 EXCEPT !.model = router.config.router.default]
    ELSE request0

\* route, steps 4 to 6 on the result pr of match_prompt_rule
RoutePrompt(router, pr) ==
    IF pr.model # NoneStr
    THEN [decision |-> RouteDecision(pr.model, "PromptRule", pr.matched),
          request |-> pr.request]
    ELSE IF router.config.router.think # NoneStr /\ is_plan_mode(pr.request)
    THEN [decision |-> RouteDecision(router.config.router.think, "Think", NoneStr),
          request |-> pr.request]
    ELSE [decision |-> RouteDecision(pr.request.model, "Default", NoneStr),
          request |-> pr.request]

\* route, step 3 on the result sub of extract_subagent_model
RouteTagged(router, sub) ==
    IF sub.model # NoneStr
    THEN [decision |-> RouteDecision(sub.model, "Default", NoneStr),
          request |-> sub.request]
    ELSE RoutePrompt(router, match_prompt_rule(router, sub.request))

\* route, steps 1 and 2 on the auto-mapped request
RouteMapped(router, original_model, request) ==
    IF router.config.router.websearch # NoneStr /\ has_web_search_tool(request)
    THEN [decision |-> RouteDecision(router.config.router.websearch, "WebSearch", NoneStr),
          request |-> request]
    ELSE IF router.config.router.background # NoneStr
            /\ is_background_task(router, original_model)
    THEN [decision |-> RouteDecision(router.config.router.background, "Background", NoneStr),
          request |-> request]
    ELSE RouteTagged(router, extract_subagent_model(router, request))

\* Router::route with the background test made on the auto-mapped model name
route_background_mapped(router, request0) ==
    LET original_model == request0.model
        request == IF RegexIsMatch(router.auto_map_regex, request0.model)
                   THEN [request0 EXCEPT !.model = router.config.router.default]
                   ELSE request0
        sub == extract_subagent_model(router, request)
        pr == match_prompt_rule(router, sub.request)
    IN  IF router.config.router.websearch # NoneStr /\ has_web_search_tool(request)
        THEN [decision |-> RouteDecision(router.config.router.websearch, "WebSearch", NoneStr),
              request |-> request]
        ELSE IF router.config.router.background # NoneStr
                /\ is_background_task(router, request.model)
        THEN [decision |-> RouteDecision(router.config.router.background, "Background", NoneStr),
              request |-> request]
        ELSE IF sub.model # NoneStr
        THEN [decision |-> RouteDecision(sub.model, "Default", NoneStr),
              request |-> sub.request]
        ELSE IF pr.model # NoneStr
        THEN [decision |-> RouteDecision(pr.model, "PromptRule", pr.matched),
              request |-> pr.request]
        ELSE IF router.config.router.think # NoneStr /\ is_plan_mode(pr.request)
        THEN [decision |-> RouteDecision(router.config.router.think, "Think", NoneStr),
              request |-> pr.request]
        ELSE [decision |-> RouteDecision(pr.request.model, "Default", NoneStr),
              request |-> pr.request]

\* Router::route: the decision and the request as mutated
route(router, request0) ==
    RouteMapped(router, request0.model, AutoMapped(router, request0))

-----------------------------------------------------------------------------
(* Adapter results (providers/error.rs) *)

ApiError(status) == [kind |-> "ApiError", status |-> status]
HttpError == [kind |-> "HttpError", status |-> 0]
AuthError == [kind |-> "AuthError", status |-> 0]
Ok == [kind |-> "Ok", status |-> 200]
Pending == [kind |-> "Pending", status |-> 0]

\* what an adapter call can come back with
Outcomes == {Ok, ApiError(404), ApiError(500), HttpError, AuthError}

\* ProviderError::is_client_error
is_client_error(e) == e.kind = "ApiError" /\ e.status >= 400 /\ e.status < 500

\* a 5xx answer of the upstream, or a network failure
IsServerOrNetworkError(e) ==
    \/ e.kind = "HttpError"
    \/ e.kind = "ApiError" /\ e.status >= 500

-----------------------------------------------------------------------------
(* Requests received on POST /v1/messages *)

Header(present, ascii, value) == [present |-> present, ascii |-> ascii, value |-> value]
NoHeader == Header(FALSE, TRUE, "")

Request(model, xp, stream, thinking, tools, system, messages, wellformed) ==
    [model |-> model, x_provider |-> xp, stream |-> stream, thinking |-> thinking,
     tools |-> tools, system |-> system, messages |-> messages,
     wellformed |-> wellformed]

ModelNames == {"claude-opus-4", "claude-3-5-haiku", "DEF.M", "legacy.m", "alt.m", "nope.m"}

\* absent, empty, naming a provider, naming no provider, not visible ASCII
Headers == {NoHeader, Header(TRUE, TRUE, ""), Header(TRUE, TRUE, "pA"),
            Header(TRUE, TRUE, "pB"), Header(TRUE, TRUE, "pZ"),
            Header(TRUE, FALSE, "p<ff>")}

ToolUseTurn == << Message("user", TextContent("hello")),
                  Message("assistant", BlocksContent(<<Block("tool_use", "")>>)) >>

BaseMessages == << Message("user", TextContent("hello")) >>

MessageVariants ==
    { <<>>,
      << Message("user", TextContent("  ")) >>,
      << Message("user", BlocksContent(<<Block("text", "hello")>>)) >>,
      ToolUseTurn \o << Message("user", BlocksContent(<<Block("tool_result", "")>>)) >>,
      ToolUseTurn \o << Message("user", BlocksContent(
            <<Block("tool_result", ""), Block("text", "hello")>>)) >>,
      ToolUseTurn \o << Message("user", BlocksContent(
            <<Block("tool_result", ""), Block("text", "  ")>>)) >>,
      ToolUseTurn \o << Message("user", BlocksContent(
            <<Block("text", continuation), Block("tool_result", "")>>)) >> }

TaggedSystem == << SystemBlocks(<<SystemBlock("You are Claude."), SystemBlock(TaggedText)>>) >>

DispatchRequests ==
    { Request(m, h, s, "none", <<>>, <<>>, BaseMessages, TRUE) :
        m \in ModelNames, h \in Headers, s \in {"true"} }
    \cup
    { Request(m, NoHeader, "false", "none", <<>>, <<>>, msgs, TRUE) :
        m \in {"claude-opus-4", "claude-3-5-haiku"}, msgs \in MessageVariants }
    \cup
    { Request("claude-opus-4", NoHeader, NoneStr, th, tools, sys, BaseMessages, TRUE) :
        th \in {"none", "enabled"}, tools \in {<<>>, <<"web_search_20250305">>},
        sys \in {<<>>, TaggedSystem} }
    \cup
    { Request(m, NoHeader, "false", "none", <<>>, <<>>,
              << Message("user", TextContent("CCM-MODEL:alt.m go")) >>, TRUE) :
        m \in {"claude-opus-4"} }
    \cup
    { Request("claude-opus-4", NoHeader, "false", "none", <<>>, <<>>, BaseMessages, FALSE) }

EmptyRequest == Request("", NoHeader, NoneStr, "none", <<>>, <<>>, <<>>, TRUE)

\* ---- the requests given to Router::route ----

ReminderText(body) == "<system-reminder>" \o body \o "</system-reminder>"

UserText(text) == Message("user", TextContent(text))
UserBlocks(blocks) == Message("user", BlocksContent(blocks))
AssistantText(text) == Message("assistant", TextContent(text))
AssistantToolUse == Message("assistant", BlocksContent(<<Block("text", "ok"), Block("tool_use", "")>>))
ToolResultOnly == UserBlocks(<<Block("tool_result", "")>>)

\* conversations: directives of every rule, several matches, a directive
\* kept through tool round-trips, a directive of a previous turn, turns
\* without text, system-reminder blocks, text split over blocks
RouteMessages ==
    { <<>>,
      << UserText("hello") >>,
      << UserText("OPUS fix it") >>,
      << UserText("fix OPUS then FAST") >>,
      << UserText("OPUS a OPUS") >>,
      << UserText("CCM-MODEL:ds-v3 write a function") >>,
      << UserText("CCM-MODEL:a and CCM-MODEL:b") >>,
      << UserText("CCM-MODEL: none") >>,
      << UserText("use M=q1 now") >>,
      << UserText("N=n1") >>,
      << UserText("go P=p1") >>,
      << UserText(ReminderText("OPUS")) >>,
      << UserBlocks(<<Block("text", "FAST"), Block("text", "go")>>) >>,
      << UserBlocks(<<Block("text", ReminderText("OPUS")), Block("text", "hello")>>) >>,
      << UserBlocks(<<Block("text", ReminderText("OPUS")), Block("text", "OPUS fix")>>) >>,
      << UserText("OPUS fix"), AssistantToolUse, ToolResultOnly >>,
      << UserText("OPUS fix"), AssistantToolUse, ToolResultOnly,
         AssistantToolUse, ToolResultOnly >>,
      << UserText("hello"), AssistantToolUse,
         UserBlocks(<<Block("tool_result", ""), Block("text", "OPUS now")>>) >>,
      << UserText("OPUS fix"), AssistantText("done"), UserText("next thing") >>,
      << UserText("first"), AssistantText("done"), UserText("OPUS second"),
         AssistantToolUse, ToolResultOnly >>,
      << UserText("OPUS fix"), AssistantText("done") >>,
      << UserText("OPUS fix"), AssistantText("done"), ToolResultOnly >>,
      << UserText("OPUS fix"), AssistantText("done"), UserText("  ") >>,
      << UserText("OPUS fix"), Message("assistant", BlocksContent(<<Block("text", "done")>>)),
         UserText("FAST next") >> }

\* tools: none, a function tool and a web search tool, a tool whose type
\* only contains "web_search"
RouteTools == { <<>>, <<NoneStr, "web_search_20250305">>, <<"web_search">>, <<"x_web_search">> }

\* system prompts: none, the tag in the second block, a tag left open, the
\* tag in a plain-text prompt, the tag in the first block only, tags in
\* three blocks, and the other tagged texts in the second block
RouteSystems ==
    { <<>>, TaggedSystem,
      << SystemBlocks(<<SystemBlock("You are Claude."), SystemBlock(UnclosedTagText)>>) >>,
      << SystemText(TaggedText) >>,
      << SystemBlocks(<<SystemBlock(TaggedText), SystemBlock("ctx")>>) >>,
      << SystemBlocks(<<SystemBlock(TaggedText), SystemBlock(TwoTagsText),
                        SystemBlock(TaggedText)>>) >>,
      << SystemBlocks(<<SystemBlock("You are Claude."), SystemBlock(RejoinedTagText)>>) >>,
      << SystemBlocks(<<SystemBlock("You are Claude."), SystemBlock(EmptyTagText)>>) >>,
      << SystemBlocks(<<SystemBlock("You are Claude."), SystemBlock(SplitTagText)>>) >> }

RouteRequests ==
    { Request(m, NoHeader, NoneStr, th, tools, sys, msgs, TRUE) :
        m \in {"claude-opus-4", "claude-3-5-haiku", "legacy.m", "nope.m"},
        th \in {"none", "enabled"}, tools \in RouteTools,
        sys \in RouteSystems, msgs \in RouteMessages }

\* the configurations the router is built from
RouterSources == {"A", "B", "D"}

-----------------------------------------------------------------------------
(* Reloadable state (server/mod.rs) *)

\* ReloadableState built from the file content src; id is the identity of
\* the Arc.  Its three components all derive from the one parsed config.
ReloadableState(id, src) == [id |-> id, src |-> src]
ConfigOf(st) == ParsedConfig(st.src)
RouterOf(st) == Router_new(ConfigOf(st))
RegistryOf(st) == from_configs_with_models(ConfigOf(st))

\* AppState::snapshot
snapshot == inner

\* the state the fallback loop reads: the live state instead of the snapshot
LoopStateLive == inner
\* the state the fallback loop reads: the request's snapshot
LoopState == snap

-----------------------------------------------------------------------------
(* Dispatcher: handle_messages (server/mod.rs) *)

\* the X-Provider header: to_str().ok(), then filter(!is_empty)
forced_provider(h) ==
    IF h.present /\ h.ascii /\ h.value # "" THEN h.value ELSE NoneStr

RECURSIVE InsertByPriority(_, _)
InsertByPriority(m, s) ==
    IF s = <<>> THEN <<m>>
    ELSE IF m.priority < Head(s).priority THEN <<m>> \o s
    ELSE <<Head(s)>> \o InsertByPriority(m, Tail(s))

\* the priority ordering left out
sort_by_priority_unsorted(s) == s

\* sorted_mappings.sort_by_key(|m| m.priority): a stable sort
RECURSIVE sort_by_priority(_)
sort_by_priority(s) ==
    IF s = <<>> THEN <<>>
    ELSE InsertByPriority(Last(s), sort_by_priority(SubSeq(s, 1, Len(s) - 1)))

\* sorted_mappings.retain(|m| m.provider == *provider_name)
RECURSIVE retain_provider(_, _)
retain_provider(s, name) ==
    IF s = <<>> THEN <<>>
    ELSE IF Head(s).provider = name THEN <<Head(s)>> \o retain_provider(Tail(s), name)
    ELSE retain_provider(Tail(s), name)

\* the filter keeping every binding except the named provider's
RECURSIVE binding_list_dropping(_, _)
binding_list_dropping(mappings, forced) ==
    IF forced # NoneStr
    THEN IF mappings = <<>> THEN <<>>
         ELSE IF Head(mappings).provider # forced
              THEN <<Head(mappings)>> \o binding_list_dropping(Tail(mappings), forced)
              ELSE binding_list_dropping(Tail(mappings), forced)
    ELSE sort_by_priority(mappings)

\* the binding list: filtered by the forced provider, or sorted by priority
binding_list(mappings, forced) ==
    IF forced # NoneStr THEN retain_provider(mappings, forced)
    ELSE sort_by_priority(mappings)

\* inner.config.models.iter().find(|m| m.name.eq_ignore_ascii_case(..)):
\* the index of the first match, 0 when there is none
find_model_config(models, name) ==
    LET hits == {i \in 1..Len(models) : EqIgnoreAsciiCase(models[i].name, name)}
    IN IF hits = {} THEN 0 ELSE CHOOSE i \in hits : \A j \in hits : i <= j

\* AppError::into_response with ProviderError as INTERNAL_SERVER_ERROR
StatusOfProvider500(error) ==
    CASE error = "RoutingError" -> 400
      [] error = "ParseError" -> 500
      [] error = "ProviderError" -> 500

\* AppError::into_response
StatusOf(error) ==
    CASE error = "RoutingError" -> 400
      [] error = "ParseError" -> 500
      [] error = "ProviderError" -> 502

ErrorResponse(error, message, n) ==
    [status |-> StatusOf(error), kind |-> "error", error |-> error,
     message |-> message, attempts |-> n, model |-> NoneStr]

OkResponse(kind, model) ==
    [status |-> 200, kind |-> kind, error |-> NoneStr, message |-> NoneStr,
     attempts |-> 0, model |-> model]

\* the request sent upstream for one binding: the body as received with the
\* binding's model, the routed system and messages, and the continuation
is_streaming(request) == request.stream = "true"

\* the upstream request built from the request as the client sent it
upstream_request_unrouted(request, mapping, dec, rtd) ==
    [model |-> mapping.actual_model,
     system |-> request.system,
     messages |-> request.messages,
     stream |-> request.stream]

upstream_request(request, mapping, dec, rtd) ==
    LET msgs == rtd.messages
        inject == /\ mapping.inject_continuation_prompt
                  /\ dec.route_type # "Background"
                  /\ msgs # <<>>
                  /\ should_inject_continuation(Last(msgs))
    IN [model |-> mapping.actual_model,
        system |-> rtd.system,
        messages |-> IF inject
                     THEN [msgs EXCEPT ![Len(msgs)] = inject_continuation_text(@)]
                     ELSE msgs,
        stream |-> request.stream]

Call(provider, mapping, op, request, id, direct) ==
    [provider |-> provider, mapping |-> mapping, op |-> op, request |-> request,
     outcome |-> Pending, state_id |-> id, direct |-> direct]

\* index of the first binding at or after `from` whose provider is
\* registered (the loop skips the others), 0 when the list is exhausted
NextBinding(registry, sorted, from) ==
    LET c == {i \in from..Len(sorted) : has_provider(registry, sorted[i].provider)}
    IN IF c = {} THEN 0 ELSE CHOOSE i \in c : \A j \in c : i <= j

\* the for loop over sorted_mappings from index `from` up to its next
\* suspension (an adapter call) or its end (502)
FallbackLoop(src, request, sorted, from, dec, rtd, done_calls) ==
    LET n == NextBinding(RegistryOf(src), sorted, from)
    IN IF n = 0
       THEN /\ rq_pc' = "done"
            /\ idx' = Len(sorted) + 1
            /\ calls' = done_calls
            /\ responses' = <<ErrorResponse("ProviderError", "AllFailed", Len(sorted))>>
       ELSE /\ rq_pc' = "await"
            /\ idx' = n
            /\ calls' = Append(done_calls,
                    Call(sorted[n].provider, sorted[n],
                         IF is_streaming(request) THEN "send_message_stream"
                                                   ELSE "send_message",
                         upstream_request(request, sorted[n], dec, rtd),
                         src.id, FALSE))
            /\ responses' = <<>>

NoDecision == RouteDecision(NoneStr, NoneStr, NoneStr)
NoRouted == [system |-> <<>>, messages |-> <<>>]
NoUsed == [router |-> -1, models |-> -1]
NoSnapshot == ReloadableState(-1, "A")

\* the request and the system prompt that route leaves behind
RoutedOf(request) == [system |-> request.system, messages |-> request.messages]

\* handle_messages, step 3 up to the first adapter call or the return: the
\* bindings of the routed model, or the direct lookup
Dispatch(st, r, dec, rtd) ==
    LET models == ConfigOf(st).models
        mc == find_model_config(models, dec.model_name)
        forced == forced_provider(r.x_provider)
        sorted == binding_list(models[mc].mappings, forced)
        direct == get_provider_for_model(RegistryOf(st), dec.model_name)
    IN  /\ decision' = dec
        /\ routed' = rtd
        /\ used' = [router |-> st.id, models |-> st.id]
        /\ IF mc # 0
           THEN IF forced # NoneStr /\ sorted = <<>>
                THEN /\ rq_pc' = "done"
                     /\ responses' = <<ErrorResponse("RoutingError",
                                            "ProviderNotInMappings", 0)>>
                     /\ sorted_mappings' = sorted
                     /\ UNCHANGED <<idx, calls>>
                ELSE /\ sorted_mappings' = sorted
                     /\ FallbackLoop(st, r, sorted, 1, dec, rtd, <<>>)
           ELSE /\ sorted_mappings' = <<>>
                /\ idx' = 0
                /\ IF direct = {}
                   THEN /\ rq_pc' = "done"
                        /\ responses' = <<ErrorResponse("ProviderError",
                                                "NoMapping", 0)>>
                        /\ calls' = <<>>
                   ELSE \E p \in direct :
                        /\ rq_pc' = "await_direct"
                        /\ responses' = <<>>
                        /\ calls' = << Call(p.name,
                                ModelMapping(0, p.name, dec.model_name, FALSE),
                                "send_message",
                                [model |-> dec.model_name, system |-> rtd.system,
                                 messages |-> rtd.messages, stream |-> r.stream],
                                st.id, TRUE) >>

\* handle_messages from its entry to its first suspension or its return
Start(r) ==
    /\ rq_pc = "idle"
    /\ rq' = r
    /\ snap' = snapshot
    /\ IF ~r.wellformed
       THEN /\ rq_pc' = "done"
            /\ responses' = <<ErrorResponse("ParseError", "InvalidFormat", 0)>>
            /\ UNCHANGED <<decision, routed, used, sorted_mappings, idx, calls>>
       ELSE Dispatch(snapshot, r, route(RouterOf(snapshot), r).decision,
                     RoutedOf(route(RouterOf(snapshot), r).request))
    /\ UNCHANGED <<reloadVars, streamVars, adapterVars>>

\* the adapter call of the current binding returns o
Reply(o) ==
    /\ rq_pc = "await"
    /\ LET done_calls == [calls EXCEPT ![Len(calls)].outcome = o]
       IN IF o = Ok
          THEN /\ rq_pc' = "done"
               /\ calls' = done_calls
               /\ responses' = << IF is_streaming(rq) THEN OkResponse("sse", NoneStr)
                                  ELSE OkResponse("json", rq.model) >>
               /\ UNCHANGED idx
          ELSE FallbackLoop(LoopState, rq, sorted_mappings, idx + 1, decision, routed,
                            done_calls)
    /\ UNCHANGED <<rq, snap, decision, routed, used, sorted_mappings>>
    /\ UNCHANGED <<reloadVars, streamVars, adapterVars>>

\* the adapter call of the direct registry lookup returns o
ReplyDirect(o) ==
    /\ rq_pc = "await_direct"
    /\ rq_pc' = "done"
    /\ calls' = [calls EXCEPT ![Len(calls)].outcome = o]
    /\ responses' = << IF o = Ok THEN OkResponse("json", rq.model)
                       ELSE ErrorResponse("ProviderError", "Upstream", 0) >>
    /\ UNCHANGED <<rq, snap, decision, routed, used, sorted_mappings, idx>>
    /\ UNCHANGED <<reloadVars, streamVars, adapterVars>>

\* the response has been sent; the next request can come
Finish ==
    /\ rq_pc = "done"
    /\ rq_pc' = "idle"
    /\ rq' = EmptyRequest
    /\ snap' = NoSnapshot
    /\ decision' = NoDecision
    /\ routed' = NoRouted
    /\ used' = NoUsed
    /\ sorted_mappings' = <<>>
    /\ idx' = 0
    /\ calls' = <<>>
    /\ responses' = <<>>
    /\ UNCHANGED <<reloadVars, streamVars, adapterVars>>

\* steps 1 and 2 of handle_messages alone: the parsed request goes through
\* inner.router.route, which returns the decision and leaves the request
\* mutated
RouteRequest ==
    /\ rq_pc = "received"
    /\ decision' = route(RouterOf(snap), rq).decision
    /\ routed' = RoutedOf(route(RouterOf(snap), rq).request)
    /\ used' = [router |-> snap.id, models |-> -1]
    /\ rq_pc' = "routed"
    /\ UNCHANGED <<rq, snap, sorted_mappings, idx, calls, responses>>
    /\ UNCHANGED <<reloadVars, streamVars, adapterVars>>

-----------------------------------------------------------------------------
(* Hot reload: reload_config (server/mod.rs) *)

\* the config file is rewritten (update_config, or an edit of the file)
ConfigFileWrite(f) ==
    /\ f # config_file
    /\ config_file' = f
    /\ UNCHANGED <<inner, next_id, reload_pc, reload_new>>
    /\ UNCHANGED <<requestVars, streamVars, adapterVars>>

\* the file parses, whether or not the registry can be built from it
ReloadCanParse(f) == f \in {"A", "B", "C"}

\* the file parses and the registry can be built from it
ReloadCanBuild(f) == f \in {"A", "B", "C"} /\ RegistryBuilds(ParsedConfig(f))

\* steps 1-4: read and parse the file, build router, registry and new state
ReloadBuild ==
    /\ reload_pc \in {"idle", "failed"}
    /\ next_id <= MaxReloads
    /\ ReloadCanBuild(config_file)
    /\ reload_new' = ReloadableState(next_id, config_file)
    /\ next_id' = next_id + 1
    /\ reload_pc' = "built"
    /\ UNCHANGED <<config_file, inner>>
    /\ UNCHANGED <<requestVars, streamVars, adapterVars>>

\* read_to_string fails (whatever the content), the file does not parse, or
\* the registry cannot be built: the handler returns the error page
ReloadFail(read_error) ==
    /\ reload_pc = "idle"
    /\ read_error \/ ~ReloadCanBuild(config_file)
    /\ reload_pc' = "failed"
    /\ UNCHANGED <<config_file, inner, next_id, reload_new>>
    /\ UNCHANGED <<requestVars, streamVars, adapterVars>>

\* step 5: *state.inner.write().unwrap() = new_inner
ReloadSwap ==
    /\ reload_pc = "built"
    /\ inner' = reload_new
    /\ reload_pc' = "idle"
    /\ UNCHANGED <<config_file, next_id, reload_new>>
    /\ UNCHANGED <<requestVars, streamVars, adapterVars>>

-----------------------------------------------------------------------------
(* Streaming transformer, OpenAI chunks -> Anthropic SSE events             *)
(* (providers/openai.rs)                                                    *)

\* StreamTransformState::default(); tool_blocks is the set of entries
\* <<OpenAI tool index, Anthropic block index>> of the HashMap
DefaultState ==
    [message_started |-> FALSE, text_block_open |-> FALSE, tool_blocks |-> {},
     next_block_index |-> 0, stream_ended |-> FALSE]

contains_key(tool_blocks, t) == \E e \in tool_blocks : e[1] = t
get_block(tool_blocks, t) == (CHOOSE e \in tool_blocks : e[1] = t)[2]

\* the orders in which a HashMap iteration can visit the entries
RECURSIVE IterationOrders(_)
IterationOrders(S) ==
    IF S = {} THEN {<<>>}
    ELSE UNION {{<<e>> \o rest : rest \in IterationOrders(S \ {e})} : e \in S}

\* an emitted SSE event: its type, the block index (-1 when it has none),
\* the block or delta type or the stop_reason, and the text it carries
Event(type, index, kind, data) ==
    [type |-> type, index |-> index, kind |-> kind, data |-> data]

MessageStart == Event("message_start", -1, "", "")
BlockStart(i, kind, id) == Event("content_block_start", i, kind, id)
BlockDelta(i, kind, data) == Event("content_block_delta", i, kind, data)
BlockStop(i) == Event("content_block_stop", i, "", "")
MessageDelta(stop_reason) == Event("message_delta", -1, stop_reason, "")
MessageStop == Event("message_stop", -1, "", "")

\* OpenAI finish_reason -> Anthropic stop_reason
stop_reason_of(reason) ==
    CASE reason = "stop" -> "end_turn"
      [] reason = "length" -> "max_tokens"
      [] reason = "tool_calls" -> "tool_use"
      [] OTHER -> "end_turn"

\* one element of delta.tool_calls: index is -1 when the key is missing,
\* id, name and arguments are NoneStr when missing
ToolCallDelta(index, id, name, arguments) ==
    [index |-> index, id |-> id, name |-> name, arguments |-> arguments]

\* one choice of a chunk; tool_calls is <<>> for None and <<list>> for Some
Choice(content, reasoning, tool_calls, finish_reason) ==
    [content |-> content, reasoning |-> reasoning, tool_calls |-> tool_calls,
     finish_reason |-> finish_reason]

\* a transformer result: the state after and the events put out
Result(st, out) == [st |-> st, out |-> out]

\* the text part of a choice: content, or reasoning when content is None
TextStep(r, choice) ==
    LET text == IF choice.content # NoneStr THEN choice.content ELSE choice.reasoning
    IN  IF text = NoneStr \/ text = "" THEN r
        ELSE IF ~r.st.text_block_open
        THEN Result([r.st EXCEPT !.text_block_open = TRUE, !.next_block_index = 1],
                    r.out \o <<BlockStart(0, "text", ""), BlockDelta(0, "text_delta", text)>>)
        ELSE Result(r.st, r.out \o <<BlockDelta(0, "text_delta", text)>>)

\* one tool-call delta
ToolCallStep(r, tc) ==
    LET tool_index == IF tc.index = -1 THEN 0 ELSE tc.index
        starts == /\ tc.id # NoneStr
                  /\ tc.name # NoneStr
                  /\ ~contains_key(r.st.tool_blocks, tool_index)
        r1 == IF starts
              THEN Result([r.st EXCEPT
                              !.tool_blocks = @ \cup {<<tool_index, r.st.next_block_index>>},
                              !.next_block_index = @ + 1],
                          Append(r.out, BlockStart(r.st.next_block_index, "tool_use", tc.id)))
              ELSE r
        has_args == tc.arguments # NoneStr /\ tc.arguments # ""
        known == contains_key(r1.st.tool_blocks, tool_index)
        block_index == IF known THEN get_block(r1.st.tool_blocks, tool_index)
                       ELSE r1.st.next_block_index
        st2 == IF known THEN r1.st
               ELSE [r1.st EXCEPT
                        !.tool_blocks = @ \cup {<<tool_index, r1.st.next_block_index>>},
                        !.next_block_index = @ + 1]
    IN  IF has_args
        THEN Result(st2, Append(r1.out, BlockDelta(block_index, "input_json_delta", tc.arguments)))
        ELSE r1

RECURSIVE ToolCallsLoop(_, _)
ToolCallsLoop(r, tcs) ==
    IF tcs = <<>> THEN r ELSE ToolCallsLoop(ToolCallStep(r, Head(tcs)), Tail(tcs))

\* the tool_calls part of a choice: closes the text block, then the deltas
ToolsStep(r, choice) ==
    IF choice.tool_calls = <<>> THEN r
    ELSE LET r0 == IF r.st.text_block_open
                   THEN Result([r.st EXCEPT !.text_block_open = FALSE],
                               Append(r.out, BlockStop(0)))
                   ELSE r
         IN ToolCallsLoop(r0, choice.tool_calls[1])

\* content_block_stop for the entries of tool_blocks in the order given
RECURSIVE ToolStops(_)
ToolStops(order) ==
    IF order = <<>> THEN <<>> ELSE <<BlockStop(Head(order)[2])>> \o ToolStops(Tail(order))

\* the closing events: the text block if open, every entry of tool_blocks,
\* message_delta and message_stop
Termination(st, order, stop_reason) ==
    (IF st.text_block_open THEN <<BlockStop(0)>> ELSE <<>>)
    \o ToolStops(order) \o <<MessageDelta(stop_reason), MessageStop>>

\* the finish_reason part of a choice: the results it can have, one for
\* each iteration order of tool_blocks
FinishStep(r, choice) ==
    IF choice.finish_reason = NoneStr THEN {r}
    ELSE { Result([r.st EXCEPT !.stream_ended = TRUE],
                  r.out \o Termination(r.st, order, stop_reason_of(choice.finish_reason))) :
           order \in IterationOrders(r.st.tool_blocks) }

ChoiceStep(r, choice) == FinishStep(ToolsStep(TextStep(r, choice), choice), choice)

RECURSIVE ChoicesLoop(_, _)
ChoicesLoop(rs, choices) ==
    IF choices = <<>> THEN rs
    ELSE ChoicesLoop(UNION {ChoiceStep(r, Head(choices)) : r \in rs}, Tail(choices))

\* transform_openai_chunk_to_anthropic_sse: the results it can have
transform_openai_chunk_to_anthropic_sse(chunk, st) ==
    LET r0 == IF ~st.message_started
              THEN Result([st EXCEPT !.message_started = TRUE], <<MessageStart>>)
              ELSE Result(st, <<>>)
    IN ChoicesLoop({r0}, chunk.choices)

\* the stream chained after the transformed one: the events it can add
finalize(st) ==
    IF st.message_started /\ ~st.stream_ended
    THEN { Termination(st, order, "end_turn") : order \in IterationOrders(st.tool_blocks) }
    ELSE { <<>> }

-----------------------------------------------------------------------------
(* The stream pipeline of send_message_stream (providers/openai.rs) *)

Chunk(choices) == [kind |-> "chunk", choices |-> choices]
\* an SSE event with empty data, [DONE], or data that is no chunk
SkippedItem == [kind |-> "skipped", choices |-> <<>>]

NoTools == <<>>
Tools(list) == <<list>>
ToolStart(i) == ToolCallDelta(i, IF i = 0 THEN "call_0" ELSE "call_1", "get_w", "")
ToolArgs(i) == ToolCallDelta(i, NoneStr, NoneStr, "{}")

TextParts == { <<NoneStr, NoneStr>>, <<"Hi", NoneStr>>, <<NoneStr, "hm">> }
ToolParts == { NoTools, Tools(<<ToolStart(0)>>), Tools(<<ToolStart(1)>>),
               Tools(<<ToolArgs(0)>>), Tools(<<ToolArgs(1)>>) }

\* the chunks the upstream can send: text or reasoning with or without a
\* finish_reason, one tool-call delta with or without a finish_reason, and
\* some further shapes
UpstreamChunks ==
    { Chunk(<<Choice(t[1], t[2], NoTools, f)>>) :
        t \in TextParts, f \in {NoneStr, "stop"} }
    \cup
    { Chunk(<<Choice(NoneStr, NoneStr, tp, f)>>) :
        tp \in ToolParts \ {NoTools}, f \in {NoneStr, "tool_calls"} }
    \cup
    { Chunk(<<>>),
      Chunk(<<Choice(NoneStr, NoneStr, NoTools, "length")>>),
      Chunk(<<Choice(NoneStr, NoneStr, NoTools, "tool_calls")>>),
      Chunk(<<Choice("", "hm", NoTools, NoneStr)>>),
      Chunk(<<Choice("Hi", NoneStr, Tools(<<ToolStart(0)>>), NoneStr)>>),
      Chunk(<<Choice(NoneStr, NoneStr, Tools(<<>>), NoneStr)>>),
      Chunk(<<Choice(NoneStr, NoneStr, Tools(<<ToolStart(0), ToolStart(1)>>), NoneStr)>>),
      Chunk(<<Choice(NoneStr, NoneStr,
                     Tools(<<ToolCallDelta(-1, "call_0", "get_w", "{}")>>), NoneStr)>>),
      Chunk(<<Choice(NoneStr, NoneStr,
                     Tools(<<ToolCallDelta(1, "call_1", NoneStr, "{}")>>), NoneStr)>>),
      Chunk(<<Choice("Hi", NoneStr, NoTools, "stop"),
              Choice(NoneStr, NoneStr, NoTools, "stop")>>) }

\* one parsed chunk goes through the transformer
TransformChunk(c) ==
    /\ st_pc = "streaming"
    /\ budget > 0
    /\ \E r \in transform_openai_chunk_to_anthropic_sse(c, state) :
        /\ state' = r.st
        /\ events' = events \o r.out
    /\ upstream' = Append(upstream, c)
    /\ budget' = budget - 1
    /\ UNCHANGED st_pc
    /\ UNCHANGED <<reloadVars, requestVars, adapterVars>>

\* an SSE event that is skipped: Bytes::new(), dropped by try_filter
SkipEvent ==
    /\ st_pc = "streaming"
    /\ budget > 0
    /\ upstream' = Append(upstream, SkippedItem)
    /\ budget' = budget - 1
    /\ UNCHANGED <<st_pc, state, events>>
    /\ UNCHANGED <<reloadVars, requestVars, adapterVars>>

\* the upstream byte stream fails: the error item ends the response body
UpstreamError ==
    /\ st_pc = "streaming"
    /\ st_pc' = "aborted"
    /\ UNCHANGED <<state, events, upstream, budget>>
    /\ UNCHANGED <<reloadVars, requestVars, adapterVars>>

\* the upstream reaches EOF: the chained finalization item runs
UpstreamEOF ==
    /\ st_pc = "streaming"
    /\ st_pc' = "ended"
    /\ \E out \in finalize(state) : events' = events \o out
    /\ UNCHANGED <<state, upstream, budget>>
    /\ UNCHANGED <<reloadVars, requestVars, adapterVars>>

-----------------------------------------------------------------------------
(* OAuth tokens and the token store (auth/token_store.rs) *)

\* Option<T>: <<>> is None, <<v>> is Some(v)
None == <<>>
Some(v) == <<v>>

\* chrono::Duration::minutes(5); the clock counts minutes
RefreshBuffer == 5

OAuthToken(provider_id, access_token, refresh_token, expires_at, enterprise_url, project_id) ==
    [provider_id |-> provider_id, access_token |-> access_token,
     refresh_token |-> refresh_token, expires_at |-> expires_at,
     enterprise_url |-> enterprise_url, project_id |-> project_id]

\* OAuthToken::is_expired at the time utc_now
is_expired(token, utc_now) == utc_now >= token.expires_at

needs_refresh_after_buffer(token, utc_now) == utc_now + RefreshBuffer > token.expires_at

\* OAuthToken::needs_refresh at the time utc_now
needs_refresh(token, utc_now) == utc_now + RefreshBuffer >= token.expires_at

\* ---- HashMap<String, OAuthToken> ----

EmptyMap == <<>>

HashMap_insert(m, k, v) == [p \in DOMAIN m \cup {k} |-> IF p = k THEN v ELSE m[p]]

HashMap_remove_kept(m, k) == m

HashMap_remove(m, k) == [p \in DOMAIN m \ {k} |-> m[p]]

HashMap_get(m, k) == IF k \in DOMAIN m THEN Some(m[k]) ELSE None

\* ---- the JSON form of the store (derive(Serialize, Deserialize)) ----

\* DateTime<Utc> is written as an RFC 3339 string and read back from it
Rfc3339(t) == <<"rfc3339", t>>
ParseRfc3339(s) == s[2]

\* the JSON object of a token: the secrets are exposed as plain strings and
\* the optional fields are left out when they are None (skip_serializing_if)
SerializeToken(t) ==
    LET keys == {"provider_id", "access_token", "refresh_token", "expires_at"}
                \cup (IF t.enterprise_url = NoneStr THEN {} ELSE {"enterprise_url"})
                \cup (IF t.project_id = NoneStr THEN {} ELSE {"project_id"})
    IN [k \in keys |-> IF k = "expires_at" THEN Rfc3339(t.expires_at) ELSE t[k]]

\* a missing optional field is read as None
DeserializeToken(o) ==
    OAuthToken(o["provider_id"], o["access_token"], o["refresh_token"],
               ParseRfc3339(o["expires_at"]),
               IF "enterprise_url" \in DOMAIN o THEN o["enterprise_url"] ELSE NoneStr,
               IF "project_id" \in DOMAIN o THEN o["project_id"] ELSE NoneStr)

\* the token file: absent, a JSON object (its members in the order they were
\* written), or the remains of a write that failed
NoFile == [kind |-> "absent"]
JsonFile(members) == [kind |-> "json", members |-> members]
PartialFile == [kind |-> "partial"]

\* serde_json::to_string_pretty(&*tokens), the members in the iteration order
to_string_pretty(m, order) ==
    JsonFile([i \in 1..Len(order) |-> <<order[i], SerializeToken(m[order[i]])>>])

\* serde_json::from_str::<HashMap<String, OAuthToken>>
from_str(members) ==
    [p \in {members[i][1] : i \in 1..Len(members)} |->
        DeserializeToken(members[CHOOSE i \in 1..Len(members) : members[i][1] = p][2])]

\* TokenStore::new: the tokens loaded from the file, none when it is absent
TokenStore_new(file) == IF file.kind = "json" THEN from_str(file.members) ELSE EmptyMap

\* TokenStore::get
TokenStore_get(m, provider_id) == HashMap_get(m, provider_id)

\* ---- calls on the store ----

\* number of save and remove calls that can be in progress at once
StoreCallers == 2

\* the ways persist() can end: Ok, or Err at File::create, at write_all
\* or at set_permissions
PersistOutcomes == {"ok", "create_failed", "write_failed", "chmod_failed"}

\* the file after persist() of the map m
Persisted(file, m, order, outcome) ==
    CASE outcome = "create_failed" -> file
      [] outcome = "write_failed"  -> PartialFile
      [] OTHER                     -> to_string_pretty(m, order)

\* a call on the store: what it asked for, how it returned, and whether this
\* run of the process made it or an earlier one
StoreCall(op, provider_id, token, result, run) ==
    [op |-> op, provider_id |-> provider_id, token |-> token, result |-> result, run |-> run]

\* the calls of this run
CallsMade == Len(SelectSeq(ts_log, LAMBDA c : c.run = "this"))

\* TokenStore::save up to the release of the write lock
StoreSave(token) ==
    /\ CallsMade < MaxStoreCalls
    /\ Cardinality(ts_pending) < StoreCallers
    /\ tokens' = HashMap_insert(tokens, token.provider_id, token)
    /\ ts_log' = Append(ts_log, StoreCall("save", token.provider_id, Some(token), "pending", "this"))
    /\ ts_pending' = ts_pending \cup {Len(ts_log) + 1}
    /\ UNCHANGED <<token_file, now, auth, expiry>>
    /\ UNCHANGED outsideAuth

\* TokenStore::remove up to the release of the write lock
StoreRemove(provider_id) ==
    /\ CallsMade < MaxStoreCalls
    /\ Cardinality(ts_pending) < StoreCallers
    /\ tokens' = HashMap_remove(tokens, provider_id)
    /\ ts_log' = Append(ts_log, StoreCall("remove", provider_id, None, "pending", "this"))
    /\ ts_pending' = ts_pending \cup {Len(ts_log) + 1}
    /\ UNCHANGED <<token_file, now, auth, expiry>>
    /\ UNCHANGED outsideAuth

\* TokenStore::persist under the read lock, and the return of the call
StorePersist(call, outcome) ==
    /\ call \in ts_pending
    /\ \E order \in IterationOrders(DOMAIN tokens) :
          token_file' = Persisted(token_file, tokens, order, outcome)
    /\ ts_log' = [ts_log EXCEPT ![call].result = IF outcome = "ok" THEN "Ok" ELSE "Err"]
    /\ ts_pending' = ts_pending \ {call}
    /\ UNCHANGED <<tokens, now, auth, expiry>>
    /\ UNCHANGED outsideAuth

\* ---- the tokens and the stores of the explored runs ----

Providers == {"anthropic-oauth", "openai-codex"}

TokenInputs ==
    {OAuthToken(p, "access-1", "refresh-1", 4, NoneStr, NoneStr) : p \in Providers}
    \cup {OAuthToken(p, "access-2", "refresh-2", 9, "https://ghe.example", NoneStr) : p \in Providers}

\* the maps a token file can hold at startup
InitialStores ==
    UNION {{m \in [S -> TokenInputs] : \A p \in S : m[p].provider_id = p} : S \in SUBSET Providers}

\* the tokens of the expiry tests
ExpiryTokens ==
    {OAuthToken("test", "token", "refresh", e, NoneStr, NoneStr) :
        e \in (0 - 1)..(MaxTime + RefreshBuffer + 1)}

NoExpiry == [token |-> None, at |-> 0, is_expired |-> FALSE, needs_refresh |-> FALSE]

\* OAuthToken::is_expired and OAuthToken::needs_refresh of one token, both
\* evaluated at the current time
TokenExpiration(token) ==
    /\ expiry' = [token |-> Some(token), at |-> now,
                  is_expired |-> is_expired(token, now),
                  needs_refresh |-> needs_refresh(token, now)]
    /\ UNCHANGED <<now, tokens, token_file, ts_log, ts_pending, auth>>
    /\ UNCHANGED outsideAuth

\* the clock advances by a minute
Tick ==
    /\ now < MaxTime
    /\ now' = now + 1
    /\ UNCHANGED <<tokens, token_file, ts_log, ts_pending, auth, expiry>>
    /\ UNCHANGED outsideAuth

-----------------------------------------------------------------------------
(* Authentication of the upstream request (get_auth_header) *)

\* an adapter as far as authentication goes
AuthAdapter(variant, api_key, oauth_provider, token_store) ==
    [variant |-> variant, api_key |-> api_key,
     oauth_provider |-> oauth_provider, token_store |-> token_store]

\* is_oauth
is_oauth(adapter) == adapter.oauth_provider # NoneStr /\ adapter.token_store

AuthResult(status, value) == [status |-> status, value |-> value]

get_auth_header_or_api_key(adapter, store, utc_now) ==
    IF adapter.oauth_provider # NoneStr /\ adapter.token_store
       /\ adapter.oauth_provider \in DOMAIN store
    THEN IF needs_refresh(store[adapter.oauth_provider], utc_now)
         THEN AuthResult("Refresh", NoneStr)
         ELSE AuthResult("Ok", store[adapter.oauth_provider].access_token)
    ELSE AuthResult("Ok", adapter.api_key)

\* get_auth_header up to the await of refresh_token: the header value, an
\* AuthError, or "Refresh" when the stored token needs a refresh. The text of
\* openai.rs 556-601 is the one of anthropic_compatible.rs 154-199 but for
\* the OAuthConfig preset.
get_auth_header(adapter, store, utc_now) ==
    IF adapter.oauth_provider # NoneStr
    THEN IF adapter.token_store
         THEN IF TokenStore_get(store, adapter.oauth_provider) # None
              THEN IF needs_refresh(store[adapter.oauth_provider], utc_now)
                   THEN AuthResult("Refresh", NoneStr)
                   ELSE AuthResult("Ok", store[adapter.oauth_provider].access_token)
              ELSE AuthResult("AuthError", "no token found in store")
         ELSE AuthResult("AuthError", "TokenStore not available")
    ELSE AuthResult("Ok", adapter.api_key)

\* the upstream request as far as authentication goes: the header that
\* carries the credential and its value
AuthenticatedRequest(adapter, auth_value) ==
    IF adapter.variant = "anthropic" /\ ~is_oauth(adapter)
    THEN [header |-> "x-api-key", value |-> auth_value]
    ELSE [header |-> "Authorization", value |-> "Bearer " \o auth_value]

\* lifetime of a refreshed token, in minutes
TokenLifetime == 8

\* the token the token endpoint answers a refresh with
RefreshedToken(old, utc_now) ==
    OAuthToken(old.provider_id, "new-" \o old.access_token, old.refresh_token,
               utc_now + TokenLifetime, old.enterprise_url, old.project_id)

NoAuth ==
    [pc |-> "idle", adapter |-> AuthAdapter("", "", NoneStr, FALSE),
     store |-> EmptyMap, at |-> 0, refreshes |-> 0,
     result |-> AuthResult("", ""), sent |-> None, count |-> 0]

\* the adapter call from its start to the upstream request, or to the await
\* of refresh_token
AuthBegin(adapter) ==
    /\ auth.pc = "idle"
    /\ auth.count < MaxAuthRequests
    /\ auth' = [pc |-> IF get_auth_header(adapter, tokens, now).status = "Refresh"
                       THEN "refreshing" ELSE "done",
                adapter |-> adapter, store |-> tokens, at |-> now, refreshes |-> 0,
                result |-> get_auth_header(adapter, tokens, now),
                sent |-> IF get_auth_header(adapter, tokens, now).status = "Ok"
                         THEN Some(AuthenticatedRequest(adapter,
                                      get_auth_header(adapter, tokens, now).value))
                         ELSE None,
                count |-> auth.count + 1]
    /\ UNCHANGED <<now, tokens, token_file, ts_log, ts_pending, expiry>>
    /\ UNCHANGED outsideAuth

\* OAuthClient::refresh_token answers Ok: the new token is saved in the store
\* and the adapter sends the request with it
RefreshOk ==
    /\ auth.pc = "refreshing"
    /\ auth.adapter.oauth_provider \in DOMAIN tokens
    /\ tokens' = HashMap_insert(tokens, auth.adapter.oauth_provider,
                                RefreshedToken(tokens[auth.adapter.oauth_provider], now))
    /\ \E order \in IterationOrders(DOMAIN tokens') :
          token_file' = to_string_pretty(tokens', order)
    /\ ts_log' = Append(ts_log,
                        StoreCall("save", auth.adapter.oauth_provider,
                                  Some(tokens'[auth.adapter.oauth_provider]), "Ok", "this"))
    /\ auth' = [auth EXCEPT !.pc = "done",
                            !.refreshes = @ + 1,
                            !.result = AuthResult("Ok",
                                          tokens'[auth.adapter.oauth_provider].access_token),
                            !.sent = Some(AuthenticatedRequest(auth.adapter,
                                          tokens'[auth.adapter.oauth_provider].access_token))]
    /\ UNCHANGED <<now, ts_pending, expiry>>
    /\ UNCHANGED outsideAuth

\* OAuthClient::refresh_token answers Err: the adapter call returns AuthError
RefreshFail ==
    /\ auth.pc = "refreshing"
    /\ auth' = [auth EXCEPT !.pc = "done",
                            !.refreshes = @ + 1,
                            !.result = AuthResult("AuthError", "Failed to refresh OAuth token"),
                            !.sent = None]
    /\ UNCHANGED <<now, tokens, token_file, ts_log, ts_pending, expiry>>
    /\ UNCHANGED outsideAuth

\* the adapter call returns
AuthReturn ==
    /\ auth.pc = "done"
    /\ auth' = [NoAuth EXCEPT !.count = auth.count]
    /\ UNCHANGED <<now, tokens, token_file, ts_log, ts_pending, expiry>>
    /\ UNCHANGED outsideAuth

AuthAdapters ==
    {AuthAdapter(v, "sk-key", o, ts) :
        v \in {"anthropic", "openai"}, o \in {NoneStr} \cup Providers, ts \in BOOLEAN}

AuthIdle ==
    /\ now = 0
    /\ tokens = EmptyMap
    /\ token_file = NoFile
    /\ ts_log = <<>>
    /\ ts_pending = {}
    /\ auth = NoAuth
    /\ expiry = NoExpiry

-----------------------------------------------------------------------------
(* Translation of a request to OpenAI Chat Completions (providers/openai.rs) *)

\* ---- content blocks with their fields ----

ImageSource(type, media_type, data, url) ==
    [type |-> type, media_type |-> media_type, data |-> data, url |-> url]
ImageBlock(source) == [type |-> "image", source |-> source]
ToolUseBlock(id, name, input) == [type |-> "tool_use", id |-> id, name |-> name, input |-> input]
ToolResultBlock(tool_use_id, content) ==
    [type |-> "tool_result", tool_use_id |-> tool_use_id, content |-> content]
ThinkingBlock == [type |-> "thinking"]

\* ToolResultContent: a string, or blocks of kind text, image or unknown
ResultText(text) == [t |-> "Text", text |-> text, blocks |-> <<>>]
ResultBlocks(blocks) == [t |-> "Blocks", text |-> "", blocks |-> blocks]

\* ToolResultContent::to_string
ToolResultContent_to_string(content) ==
    IF content.t = "Text" THEN content.text
    ELSE Join([i \in 1..Len(content.blocks) |->
                 CASE content.blocks[i].kind = "text"  -> content.blocks[i].text
                   [] content.blocks[i].kind = "image" -> "[Image]"
                   [] OTHER                            -> "[Unknown]"], "\n")

\* serde_json::to_string of the tool inputs of the model
WeatherInput == [city |-> "Oslo"]
OtherInput == [city |-> "Rome"]
input_to_string(input) == "{\"city\":\"" \o input.city \o "\"}"

\* ---- OpenAI messages ----

\* OpenAIContent::String and OpenAIContent::Parts
ContentString(text) == [t |-> "String", text |-> text, parts |-> <<>>]
ContentParts(parts) == [t |-> "Parts", text |-> "", parts |-> parts]
TextPart(text) == [type |-> "text", text |-> text]
ImageUrlPart(url) == [type |-> "image_url", text |-> url]

\* content is None or Some(content); tool_calls is None when empty
OpenAIMessage(role, content, tool_calls, tool_call_id) ==
    [role |-> role, content |-> content, tool_calls |-> tool_calls,
     tool_call_id |-> tool_call_id]

OpenAIToolCall(id, name, arguments) ==
    [id |-> id, type |-> "function", name |-> name, arguments |-> arguments]

\* ---- transform_request ----

\* the (tool_use_id, content) pairs of the tool_result blocks, in block order
tool_results(blocks) ==
    [i \in 1..Len(SelectSeq(blocks, is_tool_result)) |->
        << SelectSeq(blocks, is_tool_result)[i].tool_use_id,
           ToolResultContent_to_string(SelectSeq(blocks, is_tool_result)[i].content) >>]

is_tool_use(b) == b.type = "tool_use"

\* the tool calls of the tool_use blocks, in block order
tool_calls(blocks) ==
    [i \in 1..Len(SelectSeq(blocks, is_tool_use)) |->
        OpenAIToolCall(SelectSeq(blocks, is_tool_use)[i].id,
                       SelectSeq(blocks, is_tool_use)[i].name,
                       input_to_string(SelectSeq(blocks, is_tool_use)[i].input))]

\* the image_url of an image source, None when the source is not usable
image_url(source) ==
    IF source.type = "base64"
    THEN "data:" \o (IF source.media_type = NoneStr THEN "image/png" ELSE source.media_type)
         \o ";base64," \o (IF source.data = NoneStr THEN "" ELSE source.data)
    ELSE source.url

\* the content parts of the text and image blocks, in block order
RECURSIVE content_parts(_)
content_parts(blocks) ==
    IF blocks = <<>> THEN <<>>
    ELSE (CASE Head(blocks).type = "text" -> << TextPart(Head(blocks).text) >>
            [] Head(blocks).type = "image" ->
                  IF image_url(Head(blocks).source) = NoneStr THEN <<>>
                  ELSE << ImageUrlPart(image_url(Head(blocks).source)) >>
            [] OTHER -> <<>>)
         \o content_parts(Tail(blocks))

\* the role:tool messages of the tool results
ToolMessages(results) ==
    [i \in 1..Len(results) |->
        OpenAIMessage("tool", Some(ContentString(results[i][2])), <<>>, results[i][1])]

\* the content of the main message
MainContent(parts) ==
    IF parts = <<>> THEN None
    ELSE IF Len(parts) = 1 /\ parts[1].type = "text" THEN Some(ContentString(parts[1].text))
    ELSE Some(ContentParts(parts))

\* the main message, when there is content or a tool call
MainMessage(role, parts, tcs) ==
    IF parts # <<>> \/ tcs # <<>>
    THEN << OpenAIMessage(role, MainContent(parts), tcs, NoneStr) >>
    ELSE <<>>

MessagesOfMainFirst(msg) ==
    IF msg.content.t = "Text"
    THEN << OpenAIMessage(msg.role, Some(ContentString(msg.content.text)), <<>>, NoneStr) >>
    ELSE MainMessage(msg.role, content_parts(msg.content.blocks), tool_calls(msg.content.blocks))
         \o ToolMessages(tool_results(msg.content.blocks))

\* the OpenAI messages of one source message
MessagesOf(msg) ==
    IF msg.content.t = "Text"
    THEN << OpenAIMessage(msg.role, Some(ContentString(msg.content.text)), <<>>, NoneStr) >>
    ELSE ToolMessages(tool_results(msg.content.blocks))
         \o MainMessage(msg.role, content_parts(msg.content.blocks), tool_calls(msg.content.blocks))

\* the system message of the request
SystemMessage(system) ==
    IF system = <<>> THEN <<>>
    ELSE << OpenAIMessage("system",
               Some(ContentString(
                  IF system[1].t = "Text" THEN system[1].text
                  ELSE Join([i \in 1..Len(system[1].blocks) |-> system[1].blocks[i].text], "\n"))),
               <<>>, NoneStr) >>

RECURSIVE TransformMessages(_)
TransformMessages(messages) ==
    IF messages = <<>> THEN <<>>
    ELSE MessagesOf(Head(messages)) \o TransformMessages(Tail(messages))

\* transform_request: the messages of the OpenAI request
transform_request(request) ==
    SystemMessage(request.system) \o TransformMessages(request.messages)

\* ---- the requests translated in the explored runs ----

TranslateMessageInputs ==
    { Message("user", TextContent("hi")),
      Message("user", BlocksContent(<< ToolResultBlock("t1", ResultText("r1")) >>)),
      Message("user", BlocksContent(<< ToolResultBlock("t1", ResultText("r1")),
                                       ToolResultBlock("t2", ResultText("r2")) >>)),
      Message("user", BlocksContent(<< ToolResultBlock("t1", ResultText("r1")),
                                       Block("text", "next") >>)),
      Message("user", BlocksContent(<< Block("text", "first"),
                                       ToolResultBlock("t2", ResultText("r2")),
                                       Block("text", "then"),
                                       ToolResultBlock("t1", ResultText("r1")) >>)),
      Message("assistant", BlocksContent(<< Block("text", "calling"),
                                            ToolUseBlock("t1", "get_w", WeatherInput) >>)),
      Message("assistant", BlocksContent(<< ToolUseBlock("t1", "get_w", WeatherInput),
                                            ToolUseBlock("t2", "get_w", OtherInput) >>)),
      Message("assistant", BlocksContent(<< ThinkingBlock >>)),
      Message("user", BlocksContent(<< ImageBlock(ImageSource("base64", NoneStr, "QUJD", NoneStr)),
                                       Block("text", "what is this") >>)),
      Message("user", BlocksContent(<< ImageBlock(ImageSource("file", NoneStr, NoneStr, NoneStr)),
                                       ToolResultBlock("t1", ResultText("r1")) >>)),
      Message("user", BlocksContent(<< ToolResultBlock("t1",
                                         ResultBlocks(<< [kind |-> "text", text |-> "r1"],
                                                         [kind |-> "image", text |-> ""] >>)),
                                       ThinkingBlock >>)) }

RECURSIVE SeqsUpTo(_, _)
SeqsUpTo(S, n) ==
    IF n = 0 THEN {<<>>}
    ELSE SeqsUpTo(S, n - 1) \cup {Append(s, x) : s \in SeqsUpTo(S, n - 1), x \in S}

TranslateRequests ==
    { [system |-> sys, messages |-> msgs] :
        sys \in { <<>>, << SystemText("sys") >>,
                  << SystemBlocks(<<SystemBlock("a"), SystemBlock("b")>>) >> },
        msgs \in SeqsUpTo(TranslateMessageInputs, MaxMessages) }

\* the adapter translates the request
TranslateRequest ==
    /\ tr_pc = "received"
    /\ tr_pc' = "translated"
    /\ openai_messages' = transform_request(tr_request)
    /\ UNCHANGED tr_request
    /\ UNCHANGED outsideTranslate

TranslateIdle ==
    /\ tr_pc = "idle"
    /\ tr_request = [system |-> <<>>, messages |-> <<>>]
    /\ openai_messages = <<>>

-----------------------------------------------------------------------------
(* Deserialize and Serialize of a request (models/mod.rs) *)

\* ---- JSON values of the explored requests ----

JsonNull == [json |-> "null"]
JsonString(s) == [json |-> "string", value |-> s]
JsonArray(items) == [json |-> "array", items |-> items]

\* cache_control values
Ephemeral == [type |-> "ephemeral"]
EphemeralHour == [type |-> "ephemeral", ttl |-> "1h"]

\* the cache_control member of a JSON object: left out, null, or a value
NoMember == [json |-> "absent"]
CacheControlInputs == {NoMember, JsonNull, Ephemeral, EphemeralHour}

\* a JSON object {"type": type, "text": text} with its cache_control member
TextJson(type, text, cache_control) ==
    IF cache_control = NoMember
    THEN [type |-> type, text |-> text]
    ELSE [type |-> type, text |-> text, cache_control |-> cache_control]

\* an image block and a block of a type the proxy does not know, both with a
\* cache_control member
ImageJson ==
    [type |-> "image", source |-> [type |-> "url", url |-> "https://img.example/a.png"],
     cache_control |-> Ephemeral]
DocumentJson ==
    [type |-> "document", source |-> [type |-> "text", data |-> "pdf"],
     cache_control |-> Ephemeral]

\* ---- Deserialize ----

deserialize_cache_control_dropped(o) == None

\* Option<serde_json::Value> of the member cache_control: a missing member
\* and null are both None
deserialize_cache_control(o) ==
    IF "cache_control" \in DOMAIN o /\ o["cache_control"] # JsonNull
    THEN Some(o["cache_control"])
    ELSE None

\* ContentBlock (untagged): KnownContentBlock by its "type" tag when the
\* object has the fields of the variant, Unknown with the raw JSON otherwise
deserialize_content_block(o) ==
    CASE o["type"] = "text" /\ "text" \in DOMAIN o ->
            [variant |-> "Text", text |-> o["text"],
             cache_control |-> deserialize_cache_control(o)]
      [] o["type"] = "image" /\ "source" \in DOMAIN o ->
            [variant |-> "Image", source |-> o["source"]]
      [] OTHER -> [variant |-> "Unknown", raw |-> o]

\* SystemBlock
deserialize_system_block(o) ==
    [type |-> o["type"], text |-> o["text"], cache_control |-> deserialize_cache_control(o)]

\* MessageContent (untagged): Text or Blocks
deserialize_content(c) ==
    IF c.json = "string" THEN [t |-> "Text", text |-> c.value, blocks |-> <<>>]
    ELSE [t |-> "Blocks", text |-> "",
          blocks |-> [i \in 1..Len(c.items) |-> deserialize_content_block(c.items[i])]]

\* Option<SystemPrompt>
deserialize_system(s) ==
    IF s = <<>> THEN None
    ELSE IF s[1].json = "string" THEN Some([t |-> "Text", text |-> s[1].value, blocks |-> <<>>])
    ELSE Some([t |-> "Blocks", text |-> "",
               blocks |-> [i \in 1..Len(s[1].items) |-> deserialize_system_block(s[1].items[i])]])

\* serde_json::from_value::<AnthropicRequest>, system and messages
from_value(json) ==
    [system |-> deserialize_system(json.system),
     messages |-> [i \in 1..Len(json.messages) |->
                     [role |-> json.messages[i].role,
                      content |-> deserialize_content(json.messages[i].content)]]]

\* ---- Serialize ----

\* skip_serializing_if = "Option::is_none" on cache_control
serialize_text(type, text, cache_control) ==
    IF cache_control = None
    THEN [type |-> type, text |-> text]
    ELSE [type |-> type, text |-> text, cache_control |-> cache_control[1]]

serialize_content_block(b) ==
    CASE b.variant = "Text"  -> serialize_text("text", b.text, b.cache_control)
      [] b.variant = "Image" -> [type |-> "image", source |-> b.source]
      [] OTHER               -> b.raw

serialize_content(c) ==
    IF c.t = "Text" THEN JsonString(c.text)
    ELSE JsonArray([i \in 1..Len(c.blocks) |-> serialize_content_block(c.blocks[i])])

serialize_system(s) ==
    IF s = None THEN <<>>
    ELSE IF s[1].t = "Text" THEN << JsonString(s[1].text) >>
    ELSE << JsonArray([i \in 1..Len(s[1].blocks) |->
                         serialize_text(s[1].blocks[i].type, s[1].blocks[i].text,
                                        s[1].blocks[i].cache_control)]) >>

\* serde_json::to_value(&request), system and messages
to_value(request) ==
    [system |-> serialize_system(request.system),
     messages |-> [i \in 1..Len(request.messages) |->
                     [role |-> request.messages[i].role,
                      content |-> serialize_content(request.messages[i].content)]]]

\* ---- the requests of the explored runs ----

BlockJsons ==
    {TextJson("text", "hi", cc) : cc \in CacheControlInputs} \cup {ImageJson, DocumentJson}

SystemJsons ==
    { <<>>, << JsonString("sys") >> }
    \cup { << JsonArray(<< TextJson("text", "sys", cc) >>) >> : cc \in CacheControlInputs }

SerdeRequests ==
    { [system |-> sys, messages |-> << [role |-> "user", content |-> c] >>] :
        sys \in SystemJsons,
        c \in {JsonString("hi")}
              \cup {JsonArray(bs) : bs \in SeqsUpTo(BlockJsons, MaxBlocks) \ {<<>>}} }

NoRequest == [system |-> None, messages |-> <<>>]
NoJson == [system |-> <<>>, messages |-> <<>>]

\* the request body is deserialized
DeserializeRequest ==
    /\ sd_pc = "received"
    /\ sd_pc' = "parsed"
    /\ sd_request' = from_value(sd_input)
    /\ UNCHANGED <<sd_input, sd_output>>
    /\ UNCHANGED outsideSerde

\* the request is serialized for the upstream
SerializeRequest ==
    /\ sd_pc = "parsed"
    /\ sd_pc' = "serialized"
    /\ sd_output' = to_value(sd_request)
    /\ UNCHANGED <<sd_input, sd_request>>
    /\ UNCHANGED outsideSerde

SerdeIdle ==
    /\ sd_pc = "idle"
    /\ sd_input = NoJson
    /\ sd_request = NoRequest
    /\ sd_output = NoJson

-----------------------------------------------------------------------------
(* Lookup of the adapter of a model (ProviderRegistry::get_provider_for_model) *)

\* an OpenAI adapter and an Anthropic-compatible adapter, each listing a
\* model name in mixed case
LookupProviders ==
    { ProviderConfig("pO", "openai", {"Legacy.M"}, TRUE),
      ProviderConfig("pN", "anthropic", {"DEF.M"}, TRUE) }

\* registries: any of the adapters registered; the index empty, naming a
\* registered adapter, or naming one that is not registered
LookupRegistries ==
    { [providers |-> ps, model_to_provider |-> index] :
        ps \in SUBSET LookupProviders,
        index \in { {}, {<<"alt.m", "pO">>}, {<<"alt.m", "pZ">>, <<"DEF.M", "pO">>} } }

LookupModels == {"DEF.M", "def.m", "Legacy.M", "legacy.m", "alt.m", "nope.m"}

ModelNotSupported == "Err(ModelNotSupported)"

\* get_provider_for_model returns: the adapter's name, or the error
LookupModel ==
    /\ lk_result = NoneStr
    /\ IF get_provider_for_model(lk_registry, lk_model) = {}
       THEN lk_result' = ModelNotSupported
       ELSE \E p \in get_provider_for_model(lk_registry, lk_model) : lk_result' = p.name
    /\ UNCHANGED <<lk_registry, lk_model>>
    /\ UNCHANGED outsideLookup

LookupIdle ==
    /\ lk_registry = [providers |-> {}, model_to_provider |-> {}]
    /\ lk_model = NoneStr
    /\ lk_result = NoneStr

-----------------------------------------------------------------------------
(* Framing of the upstream bytes into SSE events (providers/streaming.rs) *)

\* the two bytes of a two-byte UTF-8 character: the leading byte and the
\* continuation byte
Utf8Lead == "^"
Utf8Cont == "~"

\* std::str::from_utf8 is Ok: no character is cut by either end of the bytes
from_utf8_ok(bytes) ==
    \A i \in 1..Len(bytes) :
        /\ SubSeq(bytes, i, i) = Utf8Lead => (i < Len(bytes) /\ SubSeq(bytes, i + 1, i + 1) = Utf8Cont)
        /\ SubSeq(bytes, i, i) = Utf8Cont => (i > 1 /\ SubSeq(bytes, i - 1, i - 1) = Utf8Lead)

\* str::rfind: the last position (1-based) where p occurs, 0 when none
RFind(s, p) ==
    IF \E i \in 1..(Len(s) - Len(p) + 1) : SubSeq(s, i, i + Len(p) - 1) = p
    THEN CHOOSE i \in 1..(Len(s) - Len(p) + 1) :
            /\ SubSeq(s, i, i + Len(p) - 1) = p
            /\ \A j \in (i + 1)..(Len(s) - Len(p) + 1) : SubSeq(s, j, j + Len(p) - 1) # p
    ELSE 0

\* str::lines: the lines of s without their line feeds
RECURSIVE Lines(_)
Lines(s) ==
    IF s = "" THEN <<>>
    ELSE IF Find(s, LF) = 0 THEN << s >>
    ELSE << SubSeq(s, 1, Find(s, LF) - 1) >> \o Lines(From(s, Find(s, LF) + 1))

SseEvent(event, data) == [event |-> event, data |-> data]

\* the loop of parse_sse_events over the lines, and the push after it
RECURSIVE ParseLines(_, _, _, _)
ParseLines(lines, parsed, current_event, current_data) ==
    IF lines = <<>>
    THEN IF current_data # "" THEN Append(parsed, SseEvent(current_event, current_data))
         ELSE parsed
    ELSE IF Head(lines) = ""
    THEN IF current_data # ""
         THEN ParseLines(Tail(lines), Append(parsed, SseEvent(current_event, current_data)),
                         NoneStr, "")
         ELSE ParseLines(Tail(lines), parsed, current_event, current_data)
    ELSE IF StartsWith(Head(lines), "data: ")
    THEN ParseLines(Tail(lines), parsed, current_event,
                    IF current_data # "" THEN current_data \o LF \o From(Head(lines), 7)
                    ELSE From(Head(lines), 7))
    ELSE IF StartsWith(Head(lines), "event: ")
    THEN ParseLines(Tail(lines), parsed, From(Head(lines), 8), current_data)
    ELSE ParseLines(Tail(lines), parsed, current_event, current_data)

\* parse_sse_events
parse_sse_events(input) == ParseLines(Lines(input), <<>>, NoneStr, "")

\* ---- SseStream::poll_next ----

\* the events parsed from the buffer up to its last blank line
CompleteEvents(buf) ==
    IF RFind(buf, LF \o LF) = 0 THEN <<>>
    ELSE parse_sse_events(SubSeq(buf, 1, RFind(buf, LF \o LF) + 1))

\* the buffer after its last blank line
IncompletePortion(buf) ==
    IF RFind(buf, LF \o LF) = 0 THEN buf ELSE From(buf, RFind(buf, LF \o LF) + 2)

\* the queue takes the events and the poll returns the first one
EmitFirst(parsed) ==
    IF parsed = <<>>
    THEN UNCHANGED <<event_queue, sse_emitted>>
    ELSE /\ sse_emitted' = Append(sse_emitted, Head(parsed))
         /\ event_queue' = Tail(parsed)

\* poll_next with an event in the queue
PollQueued ==
    /\ ~sse_done
    /\ event_queue # <<>>
    /\ sse_emitted' = Append(sse_emitted, Head(event_queue))
    /\ event_queue' = Tail(event_queue)
    /\ UNCHANGED <<sse_input, sse_pos, sse_buffer, sse_done>>
    /\ UNCHANGED outsideSse

\* poll_next when the inner stream yields the next n bytes
PollBytes(n) ==
    /\ ~sse_done
    /\ event_queue = <<>>
    /\ sse_pos + n <= Len(sse_input)
    /\ sse_pos' = sse_pos + n
    /\ IF from_utf8_ok(SubSeq(sse_input, sse_pos + 1, sse_pos + n))
       THEN /\ sse_buffer' = IncompletePortion(sse_buffer \o SubSeq(sse_input, sse_pos + 1, sse_pos + n))
            /\ EmitFirst(CompleteEvents(sse_buffer \o SubSeq(sse_input, sse_pos + 1, sse_pos + n)))
       ELSE UNCHANGED <<sse_buffer, event_queue, sse_emitted>>
    /\ UNCHANGED <<sse_input, sse_done>>
    /\ UNCHANGED outsideSse

\* poll_next when the inner stream has ended
PollEnd ==
    /\ ~sse_done
    /\ event_queue = <<>>
    /\ sse_pos = Len(sse_input)
    /\ sse_buffer' = ""
    /\ EmitFirst(parse_sse_events(sse_buffer))
    /\ sse_done' = (parse_sse_events(sse_buffer) = <<>>)
    /\ UNCHANGED <<sse_input, sse_pos>>
    /\ UNCHANGED outsideSse

\* ---- the upstream bodies of the explored runs ----

\* the most bytes the inner stream yields at once
MaxChunkBytes == 24

SseBodies ==
    { "data: a" \o LF \o LF \o "data: b" \o LF \o LF,
      "event: x" \o LF \o "data: " \o Utf8Lead \o Utf8Cont \o LF \o LF,
      "data: a" \o LF \o LF \o "data: b",
      "event: p" \o LF \o LF \o "data: a" \o LF \o LF,
      "data: a" \o LF \o "data: b" \o LF \o LF,
      ": ping" \o LF \o LF \o "data: a" \o LF \o LF }

SseIdle ==
    /\ sse_input = ""
    /\ sse_pos = 0
    /\ sse_buffer = ""
    /\ event_queue = <<>>
    /\ sse_emitted = <<>>
    /\ sse_done = FALSE

-----------------------------------------------------------------------------
(* Thinking-block sanitization (providers/anthropic_compatible.rs) *)

\* the signature member of a thinking block's raw JSON: no member, null, or
\* a string, which the code reads through its length only
Signature(kind, len) == [kind |-> kind, len |-> len]
NoSignature == Signature("absent", 0)
NullSignature == Signature("null", 0)
StringSignature(len) == Signature("string", len)

\* ContentBlock::Thinking { raw }
SignedThinking(thinking, signature) ==
    [type |-> "thinking", thinking |-> thinking, signature |-> signature]

\* the length a signature must exceed to be taken for an Anthropic one
AnthropicSignatureLength == 150

\* is_anthropic_signature, on the length of the signature
is_anthropic_signature(sig_len) == sig_len > AnthropicSignatureLength

\* raw.get("signature").and_then(|v| v.as_str()).unwrap_or("").len()
sig_len_of(block) ==
    IF block.signature.kind = "string" THEN block.signature.len ELSE 0

\* the closure of blocks.retain with the test of the target left out
should_keep_any_target(block, is_anthropic_target) ==
    IF block.type # "thinking" THEN TRUE
    ELSE IF sig_len_of(block) = 0 THEN TRUE
    ELSE is_anthropic_signature(sig_len_of(block))

\* the closure of blocks.retain: the block stays
should_keep(block, is_anthropic_target) ==
    IF block.type # "thinking" THEN TRUE
    ELSE IF sig_len_of(block) = 0 THEN TRUE
    ELSE IF is_anthropic_target THEN is_anthropic_signature(sig_len_of(block))
    ELSE FALSE

\* Vec::retain on the blocks of one message
RECURSIVE retain_blocks(_, _)
retain_blocks(blocks, is_anthropic_target) ==
    IF blocks = <<>> THEN <<>>
    ELSE IF should_keep(Head(blocks), is_anthropic_target)
    THEN <<Head(blocks)>> \o retain_blocks(Tail(blocks), is_anthropic_target)
    ELSE retain_blocks(Tail(blocks), is_anthropic_target)

\* the first loop: the blocks of every Blocks message filtered
strip_message_blocks(msg, is_anthropic_target) ==
    IF msg.content.t = "Blocks"
    THEN [msg EXCEPT !.content.blocks = retain_blocks(msg.content.blocks, is_anthropic_target)]
    ELSE msg

\* the closure of request.messages.retain: the message is not empty
message_not_empty(msg) ==
    IF msg.content.t = "Text" THEN msg.content.text # ""
    ELSE msg.content.blocks # <<>>

\* Vec::retain on the messages
RECURSIVE retain_messages(_)
retain_messages(messages) ==
    IF messages = <<>> THEN <<>>
    ELSE IF message_not_empty(Head(messages))
    THEN <<Head(messages)>> \o retain_messages(Tail(messages))
    ELSE retain_messages(Tail(messages))

\* strip_incompatible_thinking_blocks: the messages it leaves
strip_incompatible_thinking_blocks(messages, is_anthropic_target) ==
    retain_messages([i \in 1..Len(messages) |->
                        strip_message_blocks(messages[i], is_anthropic_target)])

\* send_message and send_message_stream up to the sanitized request
SanitizeRequest ==
    /\ sn_pc = "received"
    /\ sn_pc' = "sanitized"
    /\ sn_upstream' = strip_incompatible_thinking_blocks(sn_request, sn_target)
    /\ UNCHANGED <<sn_request, sn_target>>
    /\ UNCHANGED outsideSanitize

\* ---- the messages given to the adapter ----

\* messages with plain text, without content, and with thinking blocks that
\* carry no signature, a null one, an empty one, short ones, one of exactly
\* the limit length and longer ones, alone and among other blocks
SanitizeMessageInputs ==
    { Message("user", TextContent("hi")),
      Message("user", TextContent("")),
      Message("assistant", BlocksContent(<<>>)),
      Message("assistant", BlocksContent(<< SignedThinking("t1", NoSignature) >>)),
      Message("assistant", BlocksContent(
          << SignedThinking("t1", StringSignature(0)), Block("text", "a") >>)),
      Message("assistant", BlocksContent(
          << SignedThinking("t1", StringSignature(AnthropicSignatureLength + 1)) >>)),
      Message("assistant", BlocksContent(
          << SignedThinking("t1", StringSignature(AnthropicSignatureLength)) >>)),
      Message("assistant", BlocksContent(
          << Block("text", "a"),
             SignedThinking("t1", StringSignature(40)),
             SignedThinking("t2", StringSignature(AnthropicSignatureLength + 50)),
             Block("tool_use", ""),
             Block("text", "b") >>)),
      Message("assistant", BlocksContent(
          << SignedThinking("t1", NullSignature),
             Block("text", "b"),
             SignedThinking("t2", StringSignature(AnthropicSignatureLength)),
             Block("text", "a") >>)) }

SanitizeIdle ==
    /\ sn_pc = "idle"
    /\ sn_request = <<>>
    /\ sn_target = FALSE
    /\ sn_upstream = <<>>

-----------------------------------------------------------------------------
(* The lock of the token store (auth/token_store.rs)                        *)
(* save and remove take the write lock for the mutation alone; persist      *)
(* takes the read lock, serializes and writes the file before releasing it  *)

\* self.tokens.write() granted whoever holds the read lock
NoReadersWaitedFor == TRUE

\* no thread holds the read lock: self.tokens.write() can be granted
NoReaders == DOMAIN ts_serialized = {}

\* TokenStore::save, the block under the write lock
SaveUnderLock(token) ==
    /\ NoReaders
    /\ StoreSave(token)

\* TokenStore::remove, the block under the write lock
RemoveUnderLock(provider_id) ==
    /\ NoReaders
    /\ StoreRemove(provider_id)

\* persist: self.tokens.read() and serde_json::to_string_pretty; the guard
\* lives until persist returns
PersistSerialize(call) ==
    /\ call \in ts_pending
    /\ call \notin DOMAIN ts_serialized
    /\ \E order \in IterationOrders(DOMAIN tokens) :
          ts_serialized' = HashMap_insert(ts_serialized, call, to_string_pretty(tokens, order))
    /\ UNCHANGED <<ts_read, sanitizeVars, appVars, logVars, moreVars>>
    /\ UNCHANGED <<authVars, coreVars, translateVars, serdeVars, lookupVars, sseVars>>

\* the file after fs::write of json and set_permissions
Written(file, json, outcome) ==
    CASE outcome = "create_failed" -> file
      [] outcome = "write_failed"  -> PartialFile
      [] OTHER                     -> json

\* persist: fs::write, set_permissions, the release of the read lock and
\* the return of save or remove
PersistWrite(call, outcome) ==
    /\ call \in DOMAIN ts_serialized
    /\ token_file' = Written(token_file, ts_serialized[call], outcome)
    /\ ts_log' = [ts_log EXCEPT ![call].result = IF outcome = "ok" THEN "Ok" ELSE "Err"]
    /\ ts_pending' = ts_pending \ {call}
    /\ ts_serialized' = HashMap_remove(ts_serialized, call)
    /\ UNCHANGED <<tokens, now, auth, expiry>>
    /\ UNCHANGED <<ts_read, sanitizeVars, appVars, logVars, moreVars>>
    /\ UNCHANGED <<coreVars, translateVars, serdeVars, lookupVars, sseVars>>

NoRead == [provider_id |-> NoneStr, token |-> None, on_file |-> None, all_ok |-> TRUE]

\* TokenStore::get by another thread, once: the token it returns, with the
\* token the file holds for the provider at that time and whether every
\* call that has returned so far returned Ok
StoreGet(provider_id) ==
    /\ ts_read = NoRead
    /\ ts_read' = [provider_id |-> provider_id,
                   token |-> TokenStore_get(tokens, provider_id),
                   on_file |-> TokenStore_get(TokenStore_new(token_file), provider_id),
                   all_ok |-> \A i \in 1..Len(ts_log) : ts_log[i].result # "Err"]
    /\ UNCHANGED <<ts_serialized, sanitizeVars, appVars, logVars, moreVars>>
    /\ UNCHANGED <<authVars, coreVars, translateVars, serdeVars, lookupVars, sseVars>>

StoreLockIdle ==
    /\ ts_serialized = EmptyMap
    /\ ts_read = NoRead

-----------------------------------------------------------------------------
(* LoggingSseStream (providers/streaming.rs) *)

\* the data of the events of the explored bodies
StartData == "{\"message\":{\"usage\":{\"input_tokens\":3,\"cache_read_input_tokens\":2}}}"
DeltaData5 == "{\"usage\":{\"output_tokens\":5}}"
DeltaData7 == "{\"usage\":{\"output_tokens\":7}}"
NoUsageData == "{}"

\* serde_json::from_str::<Value>(data) and the members read from it with
\* unwrap_or(0); ok is FALSE when the text is not a complete JSON value
JsonUsage(ok, input_tokens, cache_creation, cache_read, output_tokens) ==
    [ok |-> ok, input_tokens |-> input_tokens, cache_creation |-> cache_creation,
     cache_read |-> cache_read, output_tokens |-> output_tokens]
MessageUsage(data) ==
    CASE data = StartData -> JsonUsage(TRUE, 3, 0, 2, 0)
      [] data = NoUsageData -> JsonUsage(TRUE, 0, 0, 0, 0)
      [] OTHER -> JsonUsage(FALSE, 0, 0, 0, 0)
DeltaUsage(data) ==
    CASE data = DeltaData5 -> JsonUsage(TRUE, 0, 0, 0, 5)
      [] data = DeltaData7 -> JsonUsage(TRUE, 0, 0, 0, 7)
      [] OTHER -> JsonUsage(data = NoUsageData, 0, 0, 0, 0)

LogStats(logged_message_start, input_tokens, cache_creation, cache_read, output_tokens) ==
    [logged_message_start |-> logged_message_start, input_tokens |-> input_tokens,
     cache_creation |-> cache_creation, cache_read |-> cache_read,
     output_tokens |-> output_tokens]

\* LoggingSseStream::new
NewLogStats == LogStats(FALSE, 0, 0, 0, 0)

\* the match on event.event for one event
LogEvent(stats, event) ==
    IF event.event = "message_start" /\ ~stats.logged_message_start
    THEN IF MessageUsage(event.data).ok
         THEN LogStats(TRUE, MessageUsage(event.data).input_tokens,
                       MessageUsage(event.data).cache_creation,
                       MessageUsage(event.data).cache_read, stats.output_tokens)
         ELSE [stats EXCEPT !.logged_message_start = TRUE]
    ELSE IF event.event = "message_delta"
    THEN [stats EXCEPT !.output_tokens = @ + DeltaUsage(event.data).output_tokens]
    ELSE stats

\* the loop over the events parsed from the accumulated buffer
RECURSIVE LogEvents(_, _)
LogEvents(stats, parsed) ==
    IF parsed = <<>> THEN stats
    ELSE LogEvents(LogEvent(stats, Head(parsed)), Tail(parsed))

\* the size over which the buffer is cleared
LogBufferLimit == 10240

\* the counters after the bytes have been appended to the buffer buf
LogBuffer(stats, buf) ==
    IF from_utf8_ok(buf) /\ Contains(buf, LF \o LF)
    THEN LogEvents(stats, parse_sse_events(buf))
    ELSE stats

\* poll_next when the inner stream yields the next n bytes: they are
\* passed through unchanged
LogPollBytes(n) ==
    /\ lg_logged = None
    /\ n >= 1
    /\ lg_pos + n <= Len(lg_input)
    /\ lg_pos' = lg_pos + n
    /\ lg_stats' = LogBuffer(lg_stats, lg_buffer \o SubSeq(lg_input, lg_pos + 1, lg_pos + n))
    /\ lg_buffer' = IF Len(lg_buffer) + n > LogBufferLimit THEN ""
                    ELSE lg_buffer \o SubSeq(lg_input, lg_pos + 1, lg_pos + n)
    /\ UNCHANGED <<lg_input, lg_logged>>
    /\ UNCHANGED outsideLog

\* poll_next when the inner stream has ended: the final log line
LogPollEnd ==
    /\ lg_logged = None
    /\ lg_pos = Len(lg_input)
    /\ lg_logged' = Some([output_tokens |-> lg_stats.output_tokens,
                          total_input |-> lg_stats.input_tokens + lg_stats.cache_creation
                                          + lg_stats.cache_read,
                          input_tokens |-> lg_stats.input_tokens,
                          cache_creation |-> lg_stats.cache_creation,
                          cache_read |-> lg_stats.cache_read])
    /\ lg_buffer' = ""
    /\ UNCHANGED <<lg_input, lg_pos, lg_stats>>
    /\ UNCHANGED outsideLog

\* ---- the upstream bodies of the explored runs ----

SseText(event, data) == "event: " \o event \o LF \o "data: " \o data \o LF \o LF

\* a message with one message_delta, one with two, and one whose
\* message_start comes after a ping
LogBodies ==
    { SseText("message_start", StartData) \o SseText("message_delta", DeltaData5)
          \o SseText("message_stop", NoUsageData),
      SseText("message_start", StartData) \o SseText("message_delta", DeltaData5)
          \o SseText("message_delta", DeltaData7),
      SseText("ping", NoUsageData) \o SseText("message_start", StartData)
          \o SseText("message_delta", DeltaData5) }

\* the sizes of the chunks the inner stream yields: one byte, a few bytes,
\* the largest chunk, and all the bytes that are left
LogChunkSizes(left) == {1, 7, MaxChunkBytes, left}

LogIdle ==
    /\ lg_input = ""
    /\ lg_pos = 0
    /\ lg_buffer = ""
    /\ lg_stats = NewLogStats
    /\ lg_logged = None

-----------------------------------------------------------------------------
(* Adapter calls that authenticate concurrently (get_auth_header)           *)

\* how many adapter calls authenticate at the same time
RefreshCallers == 2

\* an adapter configured with the OAuth provider p and a token store
OAuthAdapter(p) == AuthAdapter("anthropic", "sk-key", p, TRUE)

NoRefreshCall ==
    [pc |-> "start", provider |-> NoneStr, seen |-> None, old |-> None,
     result |-> AuthResult("", "")]

\* get_auth_header up to the return or to the call of refresh_token:
\* token_store.get clones the token under the read lock and releases it,
\* needs_refresh is evaluated on the clone
RefreshGet(r, p) ==
    /\ rf[r].pc = "start"
    /\ rf' = [rf EXCEPT ![r] =
                [pc |-> IF get_auth_header(OAuthAdapter(p), tokens, now).status = "Refresh"
                        THEN "refresh" ELSE "done",
                 provider |-> p,
                 seen |-> TokenStore_get(tokens, p),
                 old |-> None,
                 result |-> get_auth_header(OAuthAdapter(p), tokens, now)]]
    /\ UNCHANGED <<rf_sent, reloadersVars>>
    /\ UNCHANGED <<now, tokens, token_file, ts_log, ts_pending, auth, expiry>>
    /\ UNCHANGED <<coreVars, translateVars, serdeVars, lookupVars, sseVars>>
    /\ UNCHANGED <<sanitizeVars, appVars, lockVars, logVars>>

\* OAuthClient::refresh_token up to the await of the token endpoint: the
\* refresh token of the stored token is sent
RefreshSend(r) ==
    /\ rf[r].pc = "refresh"
    /\ rf[r].provider \in DOMAIN tokens
    /\ rf_sent' = Append(rf_sent,
                         [call |-> r, seen |-> rf[r].seen[1],
                          refresh_token |-> tokens[rf[r].provider].refresh_token])
    /\ rf' = [rf EXCEPT ![r].pc = "exchanging",
                        ![r].old = Some(tokens[rf[r].provider])]
    /\ UNCHANGED reloadersVars
    /\ UNCHANGED <<now, tokens, token_file, ts_log, ts_pending, auth, expiry>>
    /\ UNCHANGED <<coreVars, translateVars, serdeVars, lookupVars, sseVars>>
    /\ UNCHANGED <<sanitizeVars, appVars, lockVars, logVars>>

\* the token endpoint answers with a new token: it is saved in the store,
\* the store is persisted and get_auth_header returns the new access token
RefreshAnswerOk(r) ==
    /\ rf[r].pc = "exchanging"
    /\ tokens' = HashMap_insert(tokens, rf[r].provider, RefreshedToken(rf[r].old[1], now))
    /\ \E order \in IterationOrders(DOMAIN tokens') :
          token_file' = to_string_pretty(tokens', order)
    /\ rf' = [rf EXCEPT ![r].pc = "done",
                        ![r].result = AuthResult("Ok", tokens'[rf[r].provider].access_token)]
    /\ UNCHANGED <<rf_sent, reloadersVars>>
    /\ UNCHANGED <<now, ts_log, ts_pending, auth, expiry>>
    /\ UNCHANGED <<coreVars, translateVars, serdeVars, lookupVars, sseVars>>
    /\ UNCHANGED <<sanitizeVars, appVars, lockVars, logVars>>

\* the token endpoint answers with an error: get_auth_header returns AuthError
RefreshAnswerErr(r) ==
    /\ rf[r].pc = "exchanging"
    /\ rf' = [rf EXCEPT ![r].pc = "done",
                        ![r].result = AuthResult("AuthError", "Failed to refresh OAuth token")]
    /\ UNCHANGED <<rf_sent, reloadersVars>>
    /\ UNCHANGED <<now, tokens, token_file, ts_log, ts_pending, auth, expiry>>
    /\ UNCHANGED <<coreVars, translateVars, serdeVars, lookupVars, sseVars>>
    /\ UNCHANGED <<sanitizeVars, appVars, lockVars, logVars>>

RefreshIdle ==
    /\ rf = <<>>
    /\ rf_sent = <<>>

-----------------------------------------------------------------------------
(* reload_config handlers that run concurrently (server/mod.rs)             *)

\* how many reload_config handlers run at the same time
Reloaders == 2

\* how many times the config file is rewritten meanwhile
MaxFileWrites == 2

NoReloader == [pc |-> "start", src |-> "", version |-> 0, id |-> 0]

\* the config file is rewritten while reloads run
ConfigFileRewrite(f) ==
    /\ cf_version < MaxFileWrites
    /\ f # config_file
    /\ config_file' = f
    /\ cf_version' = cf_version + 1
    /\ UNCHANGED <<inner, next_id, reload_pc, reload_new>>
    /\ UNCHANGED <<rl, rl_installs, refreshVars>>
    /\ UNCHANGED <<requestVars, streamVars>>
    /\ UNCHANGED <<authVars, translateVars, serdeVars, lookupVars, sseVars>>
    /\ UNCHANGED <<sanitizeVars, appVars, lockVars, logVars>>

\* steps 1 to 4 of one handler, no lock held: the file is read and parsed,
\* router, registry and the new ReloadableState are built; when one of them
\* fails the handler returns the error page
ReloaderBuild(h, read_error) ==
    /\ rl[h].pc = "start"
    /\ IF ~read_error /\ ReloadCanBuild(config_file)
       THEN /\ rl' = [rl EXCEPT ![h] = [pc |-> "built", src |-> config_file,
                                        version |-> cf_version, id |-> next_id]]
            /\ next_id' = next_id + 1
       ELSE /\ rl' = [rl EXCEPT ![h].pc = "failed"]
            /\ next_id' = next_id
    /\ UNCHANGED <<config_file, inner, reload_pc, reload_new>>
    /\ UNCHANGED <<cf_version, rl_installs, refreshVars>>
    /\ UNCHANGED <<requestVars, streamVars>>
    /\ UNCHANGED <<authVars, translateVars, serdeVars, lookupVars, sseVars>>
    /\ UNCHANGED <<sanitizeVars, appVars, lockVars, logVars>>

\* step 5 of one handler: *state.inner.write().unwrap() = new_inner
ReloaderSwap(h) ==
    /\ rl[h].pc = "built"
    /\ inner' = ReloadableState(rl[h].id, rl[h].src)
    /\ rl_installs' = Append(rl_installs, rl[h].version)
    /\ rl' = [rl EXCEPT ![h].pc = "done"]
    /\ UNCHANGED <<config_file, next_id, reload_pc, reload_new>>
    /\ UNCHANGED <<cf_version, refreshVars>>
    /\ UNCHANGED <<requestVars, streamVars>>
    /\ UNCHANGED <<authVars, translateVars, serdeVars, lookupVars, sseVars>>
    /\ UNCHANGED <<sanitizeVars, appVars, lockVars, logVars>>

ReloadersIdle ==
    /\ rl = <<>>
    /\ cf_version = 0
    /\ rl_installs = <<>>

MoreIdle == RefreshIdle /\ ReloadersIdle

\* AppState's persistent fields as main builds them: the token store, the
\* path of the config file and the message tracer, each by its identity
PersistentState ==
    [token_store |-> "token-store-0", config_path |-> "config.toml",
     message_tracer |-> "tracer-0"]

AppIdle == persistent = PersistentState

LaterIdle == SanitizeIdle /\ AppIdle /\ StoreLockIdle /\ LogIdle /\ MoreIdle

AdapterIdle == AuthIdle /\ TranslateIdle /\ SerdeIdle /\ LookupIdle /\ SseIdle /\ LaterIdle

-----------------------------------------------------------------------------
(* Specification of the dispatcher under reloads *)

StreamIdle ==
    /\ st_pc = "off"
    /\ state = DefaultState
    /\ events = <<>>
    /\ upstream = <<>>
    /\ budget = 0

RequestIdle ==
    /\ rq_pc = "idle"
    /\ rq = EmptyRequest
    /\ decision = NoDecision
    /\ routed = NoRouted
    /\ used = NoUsed
    /\ sorted_mappings = <<>>
    /\ idx = 0
    /\ calls = <<>>
    /\ responses = <<>>

ReloadIdle ==
    /\ config_file = "A"
    /\ inner = ReloadableState(0, "A")
    /\ next_id = 1
    /\ reload_pc = "idle"
    /\ reload_new = ReloadableState(0, "A")

Init ==
    /\ ReloadIdle
    /\ RequestIdle
    /\ snap = NoSnapshot
    /\ StreamIdle
    /\ AdapterIdle

Next ==
    \/ \E r \in DispatchRequests : Start(r)
    \/ \E o \in Outcomes : Reply(o)
    \/ \E o \in Outcomes : ReplyDirect(o)
    \/ Finish
    \/ \E f \in FileContents : ConfigFileWrite(f)
    \/ ReloadBuild
    \/ \E read_error \in BOOLEAN : ReloadFail(read_error)
    \/ ReloadSwap

Spec == Init /\ [][Next]_vars

-----------------------------------------------------------------------------
(* Specification of one transformed stream *)

InitStream ==
    /\ ReloadIdle
    /\ RequestIdle
    /\ snap = NoSnapshot
    /\ st_pc = "streaming"
    /\ state = DefaultState
    /\ events = <<>>
    /\ upstream = <<>>
    /\ budget = MaxChunks
    /\ AdapterIdle

NextStream ==
    \/ \E c \in UpstreamChunks : TransformChunk(c)
    \/ SkipEvent
    \/ UpstreamError
    \/ UpstreamEOF

SpecStream == InitStream /\ [][NextStream]_vars

-----------------------------------------------------------------------------
(* Specification of Router::route on one request *)

InitRoute ==
    /\ config_file \in RouterSources
    /\ inner = ReloadableState(0, config_file)
    /\ next_id = 1
    /\ reload_pc = "idle"
    /\ reload_new = inner
    /\ rq \in RouteRequests
    /\ snap = inner
    /\ rq_pc = "received"
    /\ decision = NoDecision
    /\ routed = NoRouted
    /\ used = NoUsed
    /\ sorted_mappings = <<>>
    /\ idx = 0
    /\ calls = <<>>
    /\ responses = <<>>
    /\ StreamIdle
    /\ AdapterIdle

NextRoute == RouteRequest

SpecRoute == InitRoute /\ [][NextRoute]_vars

-----------------------------------------------------------------------------
(* Specification of the token store under save and remove calls *)

CoreIdle ==
    /\ ReloadIdle
    /\ RequestIdle
    /\ snap = NoSnapshot
    /\ StreamIdle

OutsideAuthIdle == CoreIdle /\ LaterIdle /\ TranslateIdle /\ SerdeIdle /\ LookupIdle /\ SseIdle

\* the maps the token file holds when the store is constructed
StartupStores ==
    {m \in InitialStores :
        \/ m = EmptyMap
        \/ /\ DOMAIN m = Providers
           /\ \A p \in DOMAIN m : m[p].access_token = IF p = "openai-codex" THEN "access-1" ELSE "access-2"}

\* the saves of an earlier run that left the map m in the file
EarlierSaves(m, order) ==
    [i \in 1..Len(order) |-> StoreCall("save", order[i], Some(m[order[i]]), "Ok", "earlier")]

InitStore ==
    /\ OutsideAuthIdle
    /\ now = 0
    /\ \E m \in StartupStores : \E order \in IterationOrders(DOMAIN m) :
          /\ token_file \in {to_string_pretty(m, order)}
                            \cup (IF m = EmptyMap THEN {NoFile} ELSE {})
          /\ ts_log = EarlierSaves(m, order)
    /\ tokens = TokenStore_new(token_file)
    /\ ts_pending = {}
    /\ auth = NoAuth
    /\ expiry = NoExpiry

NextStore ==
    \/ \E token \in TokenInputs : StoreSave(token)
    \/ \E p \in Providers : StoreRemove(p)
    \/ \E call \in ts_pending : \E outcome \in PersistOutcomes : StorePersist(call, outcome)

SpecStore == InitStore /\ [][NextStore]_vars

-----------------------------------------------------------------------------
(* Specification of the adapter calls that authenticate *)

InitAuth ==
    /\ OutsideAuthIdle
    /\ now = 0
    /\ \E m \in InitialStores : \E order \in IterationOrders(DOMAIN m) :
          token_file = to_string_pretty(m, order)
    /\ tokens = TokenStore_new(token_file)
    /\ ts_log = <<>>
    /\ ts_pending = {}
    /\ auth = NoAuth
    /\ expiry = NoExpiry

NextAuth ==
    \/ Tick
    \/ \E adapter \in AuthAdapters : AuthBegin(adapter)
    \/ RefreshOk
    \/ RefreshFail
    \/ AuthReturn

SpecAuth == InitAuth /\ [][NextAuth]_vars

-----------------------------------------------------------------------------
(* Specification of the expiry tests of a token *)

InitExpiry ==
    /\ OutsideAuthIdle
    /\ AuthIdle

NextExpiry ==
    \/ Tick
    \/ \E token \in ExpiryTokens : TokenExpiration(token)

SpecExpiry == InitExpiry /\ [][NextExpiry]_vars

-----------------------------------------------------------------------------
(* Specification of transform_request on one request *)

InitTranslate ==
    /\ CoreIdle /\ LaterIdle /\ AuthIdle /\ SerdeIdle /\ LookupIdle /\ SseIdle
    /\ tr_pc = "received"
    /\ tr_request \in TranslateRequests
    /\ openai_messages = <<>>

NextTranslate == TranslateRequest

SpecTranslate == InitTranslate /\ [][NextTranslate]_vars

-----------------------------------------------------------------------------
(* Specification of the round trip of one request through serde *)

InitSerde ==
    /\ CoreIdle /\ LaterIdle /\ AuthIdle /\ TranslateIdle /\ LookupIdle /\ SseIdle
    /\ sd_pc = "received"
    /\ sd_input \in SerdeRequests
    /\ sd_request = NoRequest
    /\ sd_output = NoJson

NextSerde ==
    \/ DeserializeRequest
    \/ SerializeRequest

SpecSerde == InitSerde /\ [][NextSerde]_vars

-----------------------------------------------------------------------------
(* Specification of get_provider_for_model on one model *)

InitLookup ==
    /\ CoreIdle /\ LaterIdle /\ AuthIdle /\ TranslateIdle /\ SerdeIdle /\ SseIdle
    /\ lk_registry \in LookupRegistries
    /\ lk_model \in LookupModels
    /\ lk_result = NoneStr

NextLookup == LookupModel

SpecLookup == InitLookup /\ [][NextLookup]_vars

-----------------------------------------------------------------------------
(* Specification of one SseStream *)

InitSse ==
    /\ CoreIdle /\ LaterIdle /\ AuthIdle /\ TranslateIdle /\ SerdeIdle /\ LookupIdle
    /\ sse_input \in SseBodies
    /\ sse_pos = 0
    /\ sse_buffer = ""
    /\ event_queue = <<>>
    /\ sse_emitted = <<>>
    /\ sse_done = FALSE

NextSse ==
    \/ PollQueued
    \/ \E n \in 1..MaxChunkBytes : PollBytes(n)
    \/ PollEnd

SpecSse == InitSse /\ [][NextSse]_vars

-----------------------------------------------------------------------------
(* Specification of the thinking-block sanitization of one request *)

InitSanitize ==
    /\ CoreIdle /\ AuthIdle /\ TranslateIdle /\ SerdeIdle /\ LookupIdle /\ SseIdle
    /\ AppIdle /\ StoreLockIdle /\ LogIdle /\ MoreIdle
    /\ sn_pc = "received"
    /\ sn_request \in SeqsUpTo(SanitizeMessageInputs, MaxMessages)
    /\ sn_target \in BOOLEAN
    /\ sn_upstream = <<>>

NextSanitize == SanitizeRequest

SpecSanitize == InitSanitize /\ [][NextSanitize]_vars

-----------------------------------------------------------------------------
(* Specifications of the token store under its lock, without and with a   *)
(* reader thread                                                            *)

\* the runs start from a file that holds a token of each provider
InitStoreLock ==
    /\ InitStore
    /\ DOMAIN tokens = Providers

\* the tokens saved: two for one provider, one for the other
LockTokenInputs ==
    {t \in TokenInputs : t.provider_id = "anthropic-oauth" \/ t.access_token = "access-2"}

\* persist() returns Ok, or Err with the file cut short
LockPersistOutcomes == {"ok", "write_failed"}

NextStoreLock ==
    \/ \E token \in LockTokenInputs : SaveUnderLock(token)
    \/ \E p \in Providers : RemoveUnderLock(p)
    \/ \E call \in ts_pending : PersistSerialize(call)
    \/ \E call \in ts_pending : \E outcome \in LockPersistOutcomes : PersistWrite(call, outcome)

SpecStoreLock == InitStoreLock /\ [][NextStoreLock]_vars

NextStoreGet ==
    \/ NextStoreLock
    \/ \E p \in Providers : StoreGet(p)

SpecStoreGet == InitStoreLock /\ [][NextStoreGet]_vars

-----------------------------------------------------------------------------
(* Specification of one LoggingSseStream *)

InitLog ==
    /\ CoreIdle /\ AuthIdle /\ TranslateIdle /\ SerdeIdle /\ LookupIdle /\ SseIdle
    /\ SanitizeIdle /\ AppIdle /\ StoreLockIdle /\ MoreIdle
    /\ lg_input \in LogBodies
    /\ lg_pos = 0
    /\ lg_buffer = ""
    /\ lg_stats = NewLogStats
    /\ lg_logged = None

NextLog ==
    \/ \E n \in LogChunkSizes(Len(lg_input) - lg_pos) : LogPollBytes(n)
    \/ LogPollEnd

SpecLog == InitLog /\ [][NextLog]_vars

-----------------------------------------------------------------------------
(* Specification of adapter calls that authenticate concurrently *)

InitRefresh ==
    /\ CoreIdle /\ TranslateIdle /\ SerdeIdle /\ LookupIdle /\ SseIdle
    /\ SanitizeIdle /\ AppIdle /\ StoreLockIdle /\ LogIdle /\ ReloadersIdle
    /\ now = 0
    /\ \E m \in InitialStores : \E order \in IterationOrders(DOMAIN m) :
          token_file = to_string_pretty(m, order)
    /\ tokens = TokenStore_new(token_file)
    /\ ts_log = <<>>
    /\ ts_pending = {}
    /\ auth = NoAuth
    /\ expiry = NoExpiry
    /\ rf = [r \in 1..RefreshCallers |-> NoRefreshCall]
    /\ rf_sent = <<>>

NextRefresh ==
    \/ Tick
    \/ \E r \in 1..RefreshCallers : \E p \in Providers : RefreshGet(r, p)
    \/ \E r \in 1..RefreshCallers : RefreshSend(r)
    \/ \E r \in 1..RefreshCallers : RefreshAnswerOk(r)
    \/ \E r \in 1..RefreshCallers : RefreshAnswerErr(r)

SpecRefresh == InitRefresh /\ [][NextRefresh]_vars

-----------------------------------------------------------------------------
(* Specification of reload_config handlers that run concurrently *)

InitReloads ==
    /\ ReloadIdle
    /\ RequestIdle
    /\ snap = NoSnapshot
    /\ StreamIdle
    /\ AuthIdle /\ TranslateIdle /\ SerdeIdle /\ LookupIdle /\ SseIdle
    /\ SanitizeIdle /\ AppIdle /\ StoreLockIdle /\ LogIdle /\ RefreshIdle
    /\ rl = [h \in 1..Reloaders |-> NoReloader]
    /\ cf_version = 0
    /\ rl_installs = <<>>

NextReloads ==
    \/ \E f \in FileContents : ConfigFileRewrite(f)
    \/ \E h \in 1..Reloaders : \E read_error \in BOOLEAN : ReloaderBuild(h, read_error)
    \/ \E h \in 1..Reloaders : ReloaderSwap(h)

SpecReloads == InitReloads /\ [][NextReloads]_vars

-----------------------------------------------------------------------------
(* Properties of the dispatcher *)

\* the logical model the request was routed to (0: none) and its bindings
RoutedModelConfig == find_model_config(ConfigOf(snap).models, decision.model_name)
RoutedMappings ==
    IF RoutedModelConfig = 0 THEN <<>>
    ELSE ConfigOf(snap).models[RoutedModelConfig].mappings

Failed(c) == c.outcome \notin {Ok, Pending}

\* C1: when an adapter call fails with a client error (ApiError, 400 <=
\* status < 500) the dispatcher returns at once and calls no further
\* binding; after any other error it goes on with the next binding.
C1_ClientErrorStopsFallback ==
    \A i \in 1..Len(calls) :
        /\ is_client_error(calls[i].outcome) => (i = Len(calls) /\ rq_pc = "done")
        /\ (Failed(calls[i]) /\ ~is_client_error(calls[i].outcome) /\ ~calls[i].direct)
             => \/ i < Len(calls)
                \/ /\ rq_pc = "done"
                   /\ NextBinding(RegistryOf(snap), sorted_mappings, idx) = 0

\* C2: with a configured logical model and no X-Provider header, adapters
\* are called in ascending order of priority: when a binding's adapter is
\* called, every binding of lower priority value has been attempted and has
\* failed, or has no registered provider; a successful call is the last.
C2_AscendingPriorityOrder ==
    (RoutedModelConfig # 0 /\ ~rq.x_provider.present) =>
        \A i \in 1..Len(calls) :
            /\ \A k \in 1..Len(RoutedMappings) :
                 RoutedMappings[k].priority < calls[i].mapping.priority =>
                    \/ ~has_provider(RegistryOf(snap), RoutedMappings[k].provider)
                    \/ \E j \in 1..(i - 1) :
                         calls[j].mapping = RoutedMappings[k] /\ Failed(calls[j])
            /\ calls[i].outcome = Ok => i = Len(calls)

\* three bindings called in priority order, the last one succeeding, while
\* the binding listed second in the config (pC) is not registered
C2_Witness ==
    /\ rq_pc = "done"
    /\ ~rq.x_provider.present
    /\ Len(calls) = 3
    /\ calls[1].mapping.priority < calls[2].mapping.priority
    /\ calls[2].mapping.priority = calls[3].mapping.priority
    /\ calls[3].outcome = Ok
    /\ RoutedMappings[1] = calls[2].mapping

\* every binding of the routed logical model was called and failed with a
\* 5xx answer or a network error
AllBindingsFailedUpstream ==
    /\ rq_pc = "done"
    /\ RoutedModelConfig # 0
    /\ Len(calls) = Len(RoutedMappings)
    /\ \A k \in 1..Len(RoutedMappings) :
         \E i \in 1..Len(calls) : calls[i].mapping = RoutedMappings[k]
    /\ \A i \in 1..Len(calls) : IsServerOrNetworkError(calls[i].outcome)

C8_UsesItsSnapshot ==
    rq_pc # "idle" =>
        /\ used.router \in {snap.id, -1}
        /\ used.models \in {snap.id, -1}
        /\ \A i \in 1..Len(calls) : calls[i].state_id = snap.id

\* a request takes as its snapshot the state that is active at that moment
C8_SnapshotIsCurrent == (rq_pc = "idle" /\ rq_pc' # "idle") => snap' = inner

\* C8: every request uses, for routing and for every binding attempt, the
\* router, model list and registry of the single state that was active when
\* it took its snapshot, whatever reloads complete while it is in flight.
C8_OneVersionPerRequest == []C8_UsesItsSnapshot /\ [][C8_SnapshotIsCurrent]_vars

\* two reloads completed while the request was in flight; its third call
\* went to pD, which the state now active does not register
C8_Witness ==
    /\ rq_pc = "await"
    /\ snap.id = 0
    /\ inner.id = 2
    /\ inner.src = "B"
    /\ Len(calls) = 3
    /\ calls[3].provider = "pD"
    /\ ~has_provider(RegistryOf(inner), "pD")

\* the claim's three conditions, on the last message as routed
HasToolResultBlock(msg) ==
    /\ msg.content.t = "Blocks"
    /\ \E i \in 1..Len(msg.content.blocks) : msg.content.blocks[i].type = "tool_result"

HasNonBlankText(msg) ==
    \/ msg.content.t = "Text" /\ msg.content.text \notin BlankTexts
    \/ /\ msg.content.t = "Blocks"
       /\ \E i \in 1..Len(msg.content.blocks) :
            /\ msg.content.blocks[i].type = "text"
            /\ msg.content.blocks[i].text \notin BlankTexts

InjectionCondition(c) ==
    /\ c.mapping.inject_continuation_prompt
    /\ decision.route_type # "Background"
    /\ routed.messages # <<>>
    /\ HasToolResultBlock(Last(routed.messages))
    /\ ~HasNonBlankText(Last(routed.messages))

BeginsWithReminder(msgs) ==
    /\ msgs # <<>>
    /\ Last(msgs).content.t = "Blocks"
    /\ Last(msgs).content.blocks # <<>>
    /\ Last(msgs).content.blocks[1] = Block("text", continuation)

ReminderCount(msgs) ==
    Cardinality({<<i, j>> \in (1..Len(msgs)) \X (1..4) :
        /\ msgs[i].content.t = "Blocks"
        /\ j <= Len(msgs[i].content.blocks)
        /\ msgs[i].content.blocks[j] = Block("text", continuation)})

\* the routed messages with the reminder block put in front of the last one
WithReminder(msgs) ==
    [msgs EXCEPT ![Len(msgs)].content.blocks = <<Block("text", continuation)>> \o @]

\* C9 as stated: for every binding attempt the upstream request's last
\* message begins with the reminder block exactly when the binding injects,
\* the route type is not Background and the routed last message has a
\* tool_result and no non-blank text; the reminder is never there twice.
C9_ReminderExactlyWhenCondition ==
    \A i \in 1..Len(calls) :
        ~calls[i].direct =>
            /\ BeginsWithReminder(calls[i].request.messages) <=> InjectionCondition(calls[i])
            /\ ReminderCount(calls[i].request.messages) <= 1

\* C9 amended: for every binding attempt the upstream messages are the
\* routed messages with the reminder block put in front of the last message
\* exactly when the three conditions hold, and the routed messages unchanged
\* in every other case (so the dispatcher adds the reminder at most once).
C9_InjectsExactlyWhenCondition ==
    \A i \in 1..Len(calls) :
        ~calls[i].direct =>
            calls[i].request.messages =
                IF InjectionCondition(calls[i])
                THEN WithReminder(routed.messages)
                ELSE routed.messages

\* a fallback sequence over an injecting, a non-injecting and an injecting
\* binding for a last message made of a tool_result and a blank text
C9_Witness ==
    /\ Len(calls) = 3
    /\ routed.messages # <<>>
    /\ Last(routed.messages).content.blocks = <<Block("tool_result", ""), Block("text", "  ")>>
    /\ BeginsWithReminder(calls[1].request.messages)
    /\ calls[2].request.messages = routed.messages
    /\ BeginsWithReminder(calls[3].request.messages)
    /\ ReminderCount(calls[3].request.messages) = 1

\* the header as the claim reads it: present and non-empty
HeaderNamesProvider == rq.x_provider.present /\ rq.x_provider.value # ""

ForcedProviderRule(name) ==
    /\ \A i \in 1..Len(calls) : calls[i].provider = name
    /\ (\A k \in 1..Len(RoutedMappings) : RoutedMappings[k].provider # name) =>
          /\ rq_pc = "done"
          /\ calls = <<>>
          /\ Len(responses) = 1
          /\ responses[1].status = 400
          /\ responses[1].error = "RoutingError"

\* C10 as stated: when X-Provider is present and non-empty no adapter other
\* than the named provider is called, and if no mapping of the routed model
\* names it the request is rejected with a 400 routing error before any
\* adapter is called; an empty header is treated as absent.
C10_ForcedProviderOnly ==
    (rq_pc # "idle" /\ rq.wellformed) =>
        /\ HeaderNamesProvider => ForcedProviderRule(rq.x_provider.value)
        /\ (rq.x_provider.present /\ rq.x_provider.value = "" /\ RoutedModelConfig # 0)
              => sorted_mappings = sort_by_priority(RoutedMappings)

\* C10 amended: the rule holds when the routed model is a configured
\* logical model and the header value is a visible-ASCII string; an empty
\* or unreadable header is treated as absent.  (Without a logical model the
\* header is not looked at and the direct lookup picks the adapter.)
C10_ForcedProviderOnLogicalModel ==
    (rq_pc # "idle" /\ rq.wellformed /\ RoutedModelConfig # 0) =>
        /\ (HeaderNamesProvider /\ rq.x_provider.ascii)
              => ForcedProviderRule(rq.x_provider.value)
        /\ (rq.x_provider.present /\ (rq.x_provider.value = "" \/ ~rq.x_provider.ascii))
              => sorted_mappings = sort_by_priority(RoutedMappings)

\* X-Provider names pB, whose binding comes second by priority: pB alone is
\* called, and its failure ends the request without any fallback
C10_Witness ==
    /\ rq_pc = "done"
    /\ rq.x_provider = Header(TRUE, TRUE, "pB")
    /\ Len(RoutedMappings) = 4
    /\ Len(calls) = 1
    /\ calls[1].provider = "pB"
    /\ calls[1].outcome = ApiError(500)
    /\ responses[1].status = 502

\* X-Provider names a provider no binding has: 400 without any call
C10_WitnessRejected ==
    /\ rq_pc = "done"
    /\ rq.x_provider = Header(TRUE, TRUE, "pZ")
    /\ RoutedModelConfig # 0
    /\ calls = <<>>
    /\ responses[1].status = 400

-----------------------------------------------------------------------------
(* Properties of the transformed stream *)

EventTypes(es) == [i \in 1..Len(es) |-> es[i].type]
IsBlockStart(e) == e.type = "content_block_start"
Starts(es) == SelectSeq(es, IsBlockStart)
IsMessageStop(e) == e.type = "message_stop"
MessageStops(es) == Len(SelectSeq(es, IsMessageStop))

\* message_start (content_block_start content_block_delta* content_block_stop)*
\* message_delta message_stop, recognised over the event types from a phase
RECURSIVE Accepts(_, _)
Accepts(types, phase) ==
    IF types = <<>> THEN phase = "stopped"
    ELSE LET t == Head(types)
             rest == Tail(types)
         IN CASE phase = "begin" ->
                    t = "message_start" /\ Accepts(rest, "between")
              [] phase = "between" ->
                    \/ t = "content_block_start" /\ Accepts(rest, "in_block")
                    \/ t = "message_delta" /\ Accepts(rest, "delta_sent")
              [] phase = "in_block" ->
                    \/ t = "content_block_delta" /\ Accepts(rest, "in_block")
                    \/ t = "content_block_stop" /\ Accepts(rest, "between")
              [] phase = "delta_sent" ->
                    t = "message_stop" /\ Accepts(rest, "stopped")
              [] OTHER -> FALSE

MatchesGrammar(es) == Accepts(EventTypes(es), "begin")

\* C4: the events of a stream that ran to upstream EOF without an error match
\* message_start (content_block_start content_block_delta* content_block_stop)*
\* message_delta message_stop, so every block is stopped before the next one
\* starts and before message_delta.
C4_EventsMatchGrammar ==
    (st_pc = "ended" /\ state.message_started) => MatchesGrammar(events)

\* C5: the indices of successive content_block_start events are strictly
\* increasing, and a text block has index 0 and starts before any tool_use
\* block, in whatever order text and tool-call deltas arrive.
C5_BlockIndicesIncrease ==
    LET s == Starts(events)
    IN /\ \A i \in 1..Len(s) : \A j \in 1..Len(s) :
            i < j => s[i].index < s[j].index
       /\ \A i \in 1..Len(s) :
            s[i].kind = "text" =>
                /\ s[i].index = 0
                /\ \A j \in 1..(i - 1) : s[j].kind # "tool_use"

\* one tool-call start chunk, one chunk of arguments, finish_reason tool_calls
ToolOnlyUpstream ==
    << Chunk(<<Choice(NoneStr, NoneStr, Tools(<<ToolStart(0)>>), NoneStr)>>),
       Chunk(<<Choice(NoneStr, NoneStr, Tools(<<ToolArgs(0)>>), NoneStr)>>),
       Chunk(<<Choice(NoneStr, NoneStr, NoTools, "tool_calls")>>) >>

\* C6: in a stream with tool calls and no text the first tool_use block has
\* index 1; for a tool-call start chunk, a chunk of arguments and a
\* finish_reason tool_calls chunk the output is message_start,
\* content_block_start 1, input_json_delta at 1, content_block_stop 1,
\* message_delta tool_use, message_stop.
C6_ToolOnlyStreamStartsAtOne ==
    LET s == Starts(events)
    IN /\ (s # <<>> /\ \A i \in 1..Len(s) : s[i].kind = "tool_use")
            => s[1].index = 1
       /\ (st_pc = "ended" /\ upstream = ToolOnlyUpstream)
            => events = << MessageStart,
                           BlockStart(1, "tool_use", "call_0"),
                           BlockDelta(1, "input_json_delta", "{}"),
                           BlockStop(1),
                           MessageDelta("tool_use"),
                           MessageStop >>

\* the block indices started more often than stopped
OpenBlocks(es) ==
    { i \in 0..(MaxChunks + 2) :
        Len(SelectSeq(es, LAMBDA e : e = BlockStop(i)))
          < Len(SelectSeq(es, LAMBDA e : IsBlockStart(e) /\ e.index = i)) }

\* what the step to upstream EOF appends: a stop for every open block, then
\* message_delta end_turn, then message_stop, when a chunk was transformed
\* and no finish_reason was seen; nothing otherwise
C7_FinalizationAppends ==
    (st_pc = "streaming" /\ st_pc' = "ended") =>
        IF state.message_started /\ ~state.stream_ended
        THEN \E n \in 0..(MaxChunks + 2) :
                /\ Len(events') = Len(events) + n + 2
                /\ SubSeq(events', 1, Len(events)) = events
                /\ \A k \in 1..n : events'[Len(events) + k].type = "content_block_stop"
                /\ \A i \in OpenBlocks(events) :
                    \E k \in 1..n : events'[Len(events) + k] = BlockStop(i)
                /\ events'[Len(events) + n + 1] = MessageDelta("end_turn")
                /\ events'[Len(events) + n + 2] = MessageStop
        ELSE events' = events

C7_OneMessageStop ==
    (st_pc = "ended" /\ state.message_started) =>
        /\ MessageStops(events) = 1
        /\ Last(events) = MessageStop

\* C7: at upstream EOF after a transformed chunk and no finish_reason the
\* transformer appends a stop for every open block, message_delta end_turn
\* and message_stop, and appends nothing otherwise; so a started stream that
\* reaches upstream EOF ends with exactly one message_stop.
C7_EOFEndsWithOneMessageStop ==
    [][C7_FinalizationAppends]_vars /\ []C7_OneMessageStop

-----------------------------------------------------------------------------
(* Properties of the endpoint's answer mode *)

\* C11: the adapter is called through send_message_stream and the answer is
\* an event stream exactly when the request body has stream = true, and
\* through send_message with a JSON answer otherwise, on the logical-model
\* path and on the direct-lookup path alike.
C11_StreamIffRequested ==
    /\ \A i \in 1..Len(calls) :
        (calls[i].op = "send_message_stream") <=> (rq.stream = "true")
    /\ \A i \in 1..Len(responses) :
        responses[i].status = 200 =>
            ((responses[i].kind = "sse") <=> (rq.stream = "true"))

-----------------------------------------------------------------------------
(* Properties of the router *)

\* the router section of the configuration the request is routed under
RouterConfig == ConfigOf(snap).router

\* route has returned for the request
Routed == rq_pc = "routed"

\* some tool of the request has a type beginning with "web_search"
HasWebSearchTool ==
    \E i \in 1..Len(rq.tools) :
        /\ Len(rq.tools[i]) >= 10
        /\ SubSeq(rq.tools[i], 1, 10) = "web_search"

\* C12 as stated: a request with a web_search tool is routed WebSearch, to
\* the websearch model when one is configured, whatever its model name,
\* system prompt, prompt and thinking flag.
C12_WebSearchToolRoutesWebSearch ==
    (Routed /\ HasWebSearchTool) =>
        /\ decision.route_type = "WebSearch"
        /\ RouterConfig.websearch # NoneStr
            => decision.model_name = RouterConfig.websearch

\* C12 amended: when router.websearch is configured, a request with a
\* web_search tool is routed WebSearch to the websearch model, whatever its
\* model name, system prompt, prompt and thinking flag; when it is not
\* configured no request is routed WebSearch.
C12_WebSearchWhenConfigured ==
    Routed =>
        /\ (RouterConfig.websearch # NoneStr /\ HasWebSearchTool)
            => decision = RouteDecision(RouterConfig.websearch, "WebSearch", NoneStr)
        /\ RouterConfig.websearch = NoneStr => decision.route_type # "WebSearch"

\* a request with a dated web_search tool, a background model name, the
\* subagent tag, a directive and thinking enabled is routed WebSearch
C12_Witness ==
    /\ Routed
    /\ rq.tools = <<NoneStr, "web_search_20250305">>
    /\ rq.model = "claude-3-5-haiku"
    /\ rq.system = TaggedSystem
    /\ rq.thinking = "enabled"
    /\ rq.messages = << UserText("OPUS fix it") >>
    /\ RouterConfig = ConfigD.router
    /\ decision.route_type = "WebSearch"

\* the pattern background_regex stands for: the default when it is absent,
\* empty or invalid
BackgroundPattern ==
    IF RouterConfig.background_regex \in {NoneStr, "", InvalidPattern}
    THEN "(?i)claude.*haiku"
    ELSE RouterConfig.background_regex

\* the model name as received matches background_regex and a background
\* model is configured
IsBackgroundRequest ==
    /\ RouterConfig.background # NoneStr
    /\ RegexIsMatch(BackgroundPattern, rq.model)

\* C13 as stated: a request whose model name as received matches
\* background_regex is routed Background to the background model when one
\* is configured, independently of every later rule.
C13_BackgroundModelRoutesBackground ==
    (Routed /\ IsBackgroundRequest) =>
        decision = RouteDecision(RouterConfig.background, "Background", NoneStr)

\* C13 amended: such a request is routed Background unless the WebSearch
\* rule applies (websearch configured and a web_search tool present), in
\* which case it is routed WebSearch; the subagent tag, the prompt rules,
\* the thinking flag and the auto-mapping of request.model do not matter.
C13_BackgroundUnlessWebSearch ==
    (Routed /\ IsBackgroundRequest) =>
        IF RouterConfig.websearch # NoneStr /\ HasWebSearchTool
        THEN decision.route_type = "WebSearch"
        ELSE decision = RouteDecision(RouterConfig.background, "Background", NoneStr)

\* a haiku request, auto-mapped to the default, with the subagent tag, a
\* directive and thinking enabled is routed Background
C13_Witness ==
    /\ Routed
    /\ rq.model = "claude-3-5-haiku"
    /\ RegexIsMatch(RouterOf(snap).auto_map_regex, rq.model)
    /\ rq.tools = <<>>
    /\ rq.system = TaggedSystem
    /\ rq.thinking = "enabled"
    /\ rq.messages = << UserText("OPUS fix it") >>
    /\ RouterConfig = ConfigD.router
    /\ decision = RouteDecision("bg.m", "Background", NoneStr)

\* the WebSearch rule applies
WebSearchApplies == RouterConfig.websearch # NoneStr /\ HasWebSearchTool

\* the Subagent rule applies: the system prompt is a block sequence with at
\* least two blocks and the second block holds a complete tag
SubagentApplies ==
    /\ rq.system # <<>>
    /\ rq.system[1].t = "Blocks"
    /\ Len(rq.system[1].blocks) >= 2
    /\ TagCapture(rq.system[1].blocks[2].text) # NoneStr

\* T: one past the (0-based) index of the most recent assistant message
\* without a tool_use block, 0 when there is none
TurnStart ==
    LET closing == {i \in 1..Len(rq.messages) :
                      /\ rq.messages[i].role = "assistant"
                      /\ \/ rq.messages[i].content.t = "Text"
                         \/ \A k \in 1..Len(rq.messages[i].content.blocks) :
                                rq.messages[i].content.blocks[k].type # "tool_use"}
    IN IF closing = {} THEN 0 ELSE CHOOSE i \in closing : \A j \in closing : j <= i

\* the message has text that is neither blank nor a system-reminder
HasPromptText(msg) ==
    IF msg.content.t = "Text"
    THEN Trim(msg.content.text) # "" /\ ~StartsWith(Trim(msg.content.text), "<system-reminder>")
    ELSE \E k \in 1..Len(msg.content.blocks) :
            /\ msg.content.blocks[k].type = "text"
            /\ Trim(msg.content.blocks[k].text) # ""
            /\ ~StartsWith(Trim(msg.content.blocks[k].text), "<system-reminder>")

\* the position (1-based) of the turn-starting user message: the first user
\* message with such text at index >= T; 0 when the turn has none
TurnStartingPosition ==
    LET c == {i \in (TurnStart + 1)..Len(rq.messages) :
                /\ rq.messages[i].role = "user"
                /\ HasPromptText(rq.messages[i])}
    IN IF c = {} THEN 0 ELSE CHOOSE i \in c : \A j \in c : i <= j

\* the position of the last user message, 0 when there is none
LastUserPosition ==
    LET u == {i \in 1..Len(rq.messages) : rq.messages[i].role = "user"}
    IN IF u = {} THEN 0 ELSE CHOOSE i \in u : \A j \in u : j <= i

\* the text of a message without its system-reminder blocks
PromptTextOf(msg) ==
    IF msg.content.t = "Text"
    THEN IF StartsWith(Trim(msg.content.text), "<system-reminder>") THEN "" ELSE msg.content.text
    ELSE JoinedBlockText(msg.content.blocks)

\* the text the prompt rules are tried on: the turn-starting message, or
\* the last user message when the turn has no message with text
ExaminedText ==
    IF TurnStartingPosition # 0 THEN PromptTextOf(rq.messages[TurnStartingPosition])
    ELSE IF LastUserPosition # 0 THEN PromptTextOf(rq.messages[LastUserPosition])
    ELSE ""

\* the prompt rules whose pattern compiles, in declaration order
UsableRules == SelectSeq(RouterConfig.prompt_rules, RuleCompiles)

\* a rule matches a text
RuleMatches(rule, text) == Regex_captures(Regex_new(rule.pattern), text).found

\* the rules that match the examined text, by position
MatchingRules == {i \in 1..Len(UsableRules) : RuleMatches(UsableRules[i], ExaminedText)}
FirstMatchingRule == UsableRules[CHOOSE i \in MatchingRules : \A j \in MatchingRules : i <= j]

ThinkApplies == RouterConfig.think # NoneStr /\ rq.thinking = "enabled"

\* the route type of the first applicable rule in the order WebSearch,
\* Background, Subagent tag, Prompt rule, Think, Default
FirstApplicableRule ==
    IF WebSearchApplies THEN "WebSearch"
    ELSE IF IsBackgroundRequest THEN "Background"
    ELSE IF SubagentApplies THEN "Subagent"
    ELSE IF MatchingRules # {} THEN "PromptRule"
    ELSE IF ThinkApplies THEN "Think"
    ELSE "Default"

IsStaticRule(rule) == ~contains_capture_reference(rule.model)

\* C15 as stated: whenever the turn-starting message matches the pattern of
\* a prompt rule with a static model, route returns that rule's model.
C15_StaticRuleSelectsModel ==
    Routed =>
        \A i \in 1..Len(UsableRules) :
            ( ( /\ IsStaticRule(UsableRules[i])
                /\ TurnStartingPosition # 0
                /\ RuleMatches(UsableRules[i], ExaminedText) )
              => decision.model_name = UsableRules[i].model )

\* C15: when neither the WebSearch, the Background nor the Subagent rule
\* applies, and P is the first declared prompt rule whose pattern matches the
\* turn-starting message, and P's model is static, route returns
\* model_name = P.model with route type PromptRule.
C15_FirstStaticRuleSelectsModel ==
    ( /\ Routed
      /\ FirstApplicableRule = "PromptRule"
      /\ TurnStartingPosition # 0
      /\ IsStaticRule(FirstMatchingRule) )
        => ( /\ decision.model_name = FirstMatchingRule.model
             /\ decision.route_type = "PromptRule" )

\* the third declared rule is the first that matches, a later rule with the
\* same pattern is not used
C15_Witness ==
    /\ Routed
    /\ RouterConfig = ConfigD.router
    /\ FirstApplicableRule = "PromptRule"
    /\ TurnStartingPosition # 0
    /\ IsStaticRule(FirstMatchingRule)
    /\ Cardinality(MatchingRules) >= 2
    /\ FirstMatchingRule.model = "opus.m"
    /\ decision.model_name = "opus.m"

\* the position of the message whose text the prompt rules are tried on
TextSourcePosition ==
    IF TurnStartingPosition # 0 THEN TurnStartingPosition ELSE LastUserPosition

\* C16 as stated: the rules are matched against the first user message with
\* text at index >= T, and the text of a user message of a previous turn
\* never produces a PromptRule decision.
C16_OnlyCurrentTurnDecides ==
    (Routed /\ decision.route_type = "PromptRule") =>
        /\ TurnStartingPosition # 0
        /\ \E i \in 1..Len(UsableRules) :
              /\ RuleMatches(UsableRules[i], PromptTextOf(rq.messages[TurnStartingPosition]))
              /\ decision.matched_prompt =
                   Regex_captures(Regex_new(UsableRules[i].pattern),
                                  PromptTextOf(rq.messages[TurnStartingPosition])).whole

\* C16: the rules are matched against the first user message with non-blank,
\* non-reminder text at index >= T, so a directive in it selects its rule
\* however many tool_use / tool_result round-trips follow; when no user
\* message at index >= T has such text the last user message is matched
\* instead, and that is the only case in which a message of a previous turn
\* produces a PromptRule decision.
C16_TurnStartingMessageDecides ==
    Routed =>
        /\ ( /\ ~WebSearchApplies /\ ~IsBackgroundRequest /\ ~SubagentApplies
             /\ TurnStartingPosition # 0
             /\ \E i \in 1..Len(UsableRules) :
                   RuleMatches(UsableRules[i], PromptTextOf(rq.messages[TurnStartingPosition])) )
           => decision.route_type = "PromptRule"
        /\ decision.route_type = "PromptRule" =>
            /\ TextSourcePosition # 0
            /\ \/ TextSourcePosition > TurnStart
               \/ TurnStartingPosition = 0 /\ TextSourcePosition = LastUserPosition
            /\ \E i \in 1..Len(UsableRules) :
                  /\ RuleMatches(UsableRules[i], PromptTextOf(rq.messages[TextSourcePosition]))
                  /\ decision.matched_prompt =
                       Regex_captures(Regex_new(UsableRules[i].pattern),
                                      PromptTextOf(rq.messages[TextSourcePosition])).whole

\* two tool round-trips after the directive: the directive still selects
\* its rule
C16_Witness ==
    /\ Routed
    /\ Len(rq.messages) = 5
    /\ TurnStart = 0
    /\ TurnStartingPosition = 1
    /\ has_tool_use(rq.messages[4])
    /\ rq.messages[5] = ToolResultOnly
    /\ decision.route_type = "PromptRule"
    /\ decision.matched_prompt = "OPUS"

\* text with the first occurrence of sub removed
RemoveFirst(text, sub) ==
    LET i == Find(text, sub)
    IN IF i = 0 \/ sub = "" THEN text
       ELSE SubSeq(text, 1, i - 1) \o From(text, i + Len(sub))

\* the blocks of a message that hold no prompt text: the blocks that are no
\* text block and the system-reminder blocks
OtherBlocksUnchanged(before, after) ==
    /\ Len(after) = Len(before)
    /\ \A k \in 1..Len(before) :
          ~IsPromptTextBlock(before[k]) => after[k] = before[k]

\* C17: when a prompt rule with strip_match = true matches, the text of the
\* turn-starting user message after route is its original text with the
\* matched substring removed and every other message is unchanged; when the
\* rule has strip_match = false no message is modified.
C17_StripRemovesMatchedSubstring ==
    (Routed /\ decision.route_type = "PromptRule") =>
        IF FirstMatchingRule.strip_match
        THEN /\ Len(routed.messages) = Len(rq.messages)
             /\ \A j \in 1..Len(rq.messages) :
                   j # TextSourcePosition => routed.messages[j] = rq.messages[j]
             /\ LET before == rq.messages[TextSourcePosition]
                    after == routed.messages[TextSourcePosition]
                IN /\ after.role = before.role
                   /\ after.content.t = before.content.t
                   /\ IF before.content.t = "Text"
                      THEN after.content.text =
                              RemoveFirst(before.content.text, decision.matched_prompt)
                      ELSE /\ OtherBlocksUnchanged(before.content.blocks, after.content.blocks)
                           /\ JoinedBlockText(after.content.blocks) =
                                RemoveFirst(JoinedBlockText(before.content.blocks),
                                            decision.matched_prompt)
        ELSE routed.messages = rq.messages

\* the ways a model template can refer to the capture group of a rule:
\* $1 and ${1}, and $name and ${name} when the group is named
ReferenceForms(rule) ==
    LET name == Regex_new(rule.pattern).group_name
    IN IF ~Regex_new(rule.pattern).has_group THEN {}
       ELSE {"$1", "${1}"} \cup
            (IF name = NoneStr THEN {} ELSE {"$" \o name, "${" \o name \o "}"})

HasReference(rule) == \E r \in ReferenceForms(rule) : Contains(rule.model, r)

\* the template with every reference of refs replaced by text
RECURSIVE Substituted(_, _, _)
Substituted(template, refs, text) ==
    IF template = "" THEN ""
    ELSE LET here == {r \in refs : StartsWith(template, r)}
         IN IF here # {}
            THEN LET r == CHOOSE x \in here : \A y \in here : Len(y) <= Len(x)
                 IN text \o Substituted(From(template, Len(r) + 1), refs, text)
            ELSE Head(template) \o Substituted(Tail(template), refs, text)

\* C18: the model of a PromptRule decision is the rule's template with each
\* capture reference ($1, $name, ${1}, ${name}) replaced by the group of the
\* first match of the pattern in the examined message; a template without a
\* reference is returned as written.
C18_TemplateExpandsCaptures ==
    (Routed /\ decision.route_type = "PromptRule") =>
        LET rule == FirstMatchingRule
            captures == Regex_captures(Regex_new(rule.pattern), ExaminedText)
        IN decision.model_name =
              IF HasReference(rule)
              THEN Substituted(rule.model, ReferenceForms(rule), captures.group)
              ELSE rule.model

\* a named reference in braces behind a prefix: "or/${m}" on "use M=q1 now"
C18_Witness ==
    /\ Routed
    /\ decision.route_type = "PromptRule"
    /\ FirstMatchingRule.model = "or/${m}"
    /\ HasReference(FirstMatchingRule)
    /\ decision.matched_prompt = "M=q1"
    /\ decision.model_name = "or/q1"

\* the pattern the request's model is tested against: auto_map_regex, or
\* ^claude- when it is absent, empty or does not compile
EffectiveAutoMap ==
    IF RouterConfig.auto_map_regex \in {NoneStr, "", InvalidPattern}
    THEN "^claude-"
    ELSE RouterConfig.auto_map_regex

\* C19: when no higher-priority rule applies, route returns Default with
\* model_name = router.default if the request's model matches auto_map_regex
\* (^claude- by default), and with the request's model unchanged otherwise.
C19_DefaultModelAutoMapped ==
    (Routed /\ FirstApplicableRule = "Default") =>
        decision = RouteDecision(IF RegexIsMatch(EffectiveAutoMap, rq.model)
                                 THEN RouterConfig.default
                                 ELSE rq.model,
                                 "Default", NoneStr)

\* a claude model is mapped to router.default under the default pattern
C19_Witness ==
    /\ Routed
    /\ FirstApplicableRule = "Default"
    /\ RouterConfig.auto_map_regex \in {NoneStr, ""}
    /\ rq.model = "claude-opus-4"
    /\ decision.route_type = "Default"
    /\ decision.model_name = RouterConfig.default
    /\ decision.model_name # rq.model

-----------------------------------------------------------------------------
(* Properties of the upstream calls *)

\* what inner.router.route returns for the request in progress
RouteResult == route(RouterOf(snap), rq)

\* the messages with the continuation text added to the last one
WithContinuation(msgs) ==
    IF msgs = <<>> THEN msgs
    ELSE [msgs EXCEPT ![Len(msgs)] = inject_continuation_text(@)]

\* C20: every upstream call of a request, first attempt or fallback, carries
\* model = the binding's actual_model (the routed model on the direct path)
\* and the system prompt and the messages that route left behind, the
\* messages with the continuation text added when the binding asks for it;
\* no call exists before route has returned its decision.
C20_CallsCarryRoutedRequest ==
    \A i \in 1..Len(calls) :
        LET c == calls[i]
        IN /\ decision # NoDecision
           /\ decision = RouteResult.decision
           /\ c.request.model = c.mapping.actual_model
           /\ c.direct => c.request.model = decision.model_name
           /\ ~c.direct => \E k \in 1..Len(sorted_mappings) : c.mapping = sorted_mappings[k]
           /\ c.request.system = RouteResult.request.system
           /\ \/ c.request.messages = RouteResult.request.messages
              \/ /\ c.mapping.inject_continuation_prompt
                 /\ c.request.messages = WithContinuation(RouteResult.request.messages)

\* a fallback attempt after the router stripped a directive from the
\* message: both calls carry the stripped text and their own binding's model
C20_Witness ==
    /\ Len(calls) >= 2
    /\ RouteResult.request.messages # rq.messages
    /\ calls[1].request.model # calls[2].request.model
    /\ calls[2].request.model = calls[2].mapping.actual_model
    /\ calls[2].request.messages # rq.messages
    /\ calls[1].outcome # Pending

-----------------------------------------------------------------------------
(* Properties of the transformed stream: termination and reassembly *)

\* the number of events of es equal to e
CountOf(es, e) == Len(SelectSeq(es, LAMBDA x : x = e))

\* C27: message_stop is emitted at most once, no event follows it, and no
\* content block is stopped more than once, whatever the upstream sends
\* after or alongside a finish_reason.
C27_MessageStopOnceAndLast ==
    /\ MessageStops(events) <= 1
    /\ \A i \in 1..Len(events) : IsMessageStop(events[i]) => i = Len(events)
    /\ \A b \in 0..(2 * MaxChunks) : CountOf(events, BlockStop(b)) <= 1

\* the OpenAI tool index a tool-call delta is about
ToolIndexOf(tc) == IF tc.index = -1 THEN 0 ELSE tc.index

\* the concatenation of a sequence of strings
RECURSIVE Concat(_)
Concat(texts) == IF texts = <<>> THEN "" ELSE Head(texts) \o Concat(Tail(texts))

\* the tool-call deltas of the upstream items, in order
RECURSIVE ToolCallsOfChoices(_)
ToolCallsOfChoices(choices) ==
    IF choices = <<>> THEN <<>>
    ELSE (IF Head(choices).tool_calls = <<>> THEN <<>> ELSE Head(choices).tool_calls[1])
         \o ToolCallsOfChoices(Tail(choices))

RECURSIVE ToolCallsReceived(_)
ToolCallsReceived(items) ==
    IF items = <<>> THEN <<>>
    ELSE ToolCallsOfChoices(Head(items).choices) \o ToolCallsReceived(Tail(items))

\* the function.arguments fragments received for tool index t, concatenated
ArgumentsReceived(t) ==
    LET about == SelectSeq(ToolCallsReceived(upstream),
                           LAMBDA tc : ToolIndexOf(tc) = t /\ tc.arguments # NoneStr)
    IN Concat([i \in 1..Len(about) |-> about[i].arguments])

\* the partial_json fragments emitted at block index b, concatenated
PartialJsonEmitted(b) ==
    LET at == SelectSeq(events, LAMBDA e : /\ e.type = "content_block_delta"
                                            /\ e.kind = "input_json_delta"
                                            /\ e.index = b)
    IN Concat([i \in 1..Len(at) |-> at[i].data])

\* C28: distinct OpenAI tool indices have distinct block indices, and the
\* partial_json fragments emitted at the block index of a tool index
\* concatenate to the function.arguments fragments received for it.
C28_ToolArgumentsReassemble ==
    /\ \A e1, e2 \in state.tool_blocks : e1[1] # e2[1] => e1[2] # e2[2]
    /\ \A e \in state.tool_blocks : PartialJsonEmitted(e[2]) = ArgumentsReceived(e[1])

\* the non-empty content and reasoning strings of the choices, in order
RECURSIVE TextOfChoices(_)
TextOfChoices(choices) ==
    IF choices = <<>> THEN ""
    ELSE (IF Head(choices).content = NoneStr THEN "" ELSE Head(choices).content)
         \o (IF Head(choices).reasoning = NoneStr THEN "" ELSE Head(choices).reasoning)
         \o TextOfChoices(Tail(choices))

RECURSIVE TextReceived(_)
TextReceived(items) ==
    IF items = <<>> THEN ""
    ELSE TextOfChoices(Head(items).choices) \o TextReceived(Tail(items))

IsTextDelta(e) == e.type = "content_block_delta" /\ e.kind = "text_delta"

\* C29: every non-empty delta.content or delta.reasoning yields a text_delta
\* at index 0 with that text: the text_delta texts concatenate to the
\* non-empty content and reasoning strings received.
C29_TextDeltasCarryAllText ==
    LET deltas == SelectSeq(events, IsTextDelta)
    IN /\ \A i \in 1..Len(deltas) : deltas[i].index = 0
       /\ Concat([i \in 1..Len(deltas) |-> deltas[i].data]) = TextReceived(upstream)

-----------------------------------------------------------------------------
(* Properties of the token store *)

\* every call on the store has returned, and returned Ok
AllCallsReturnedOk ==
    /\ ts_pending = {}
    /\ \A i \in 1..Len(ts_log) : ts_log[i].result = "Ok"

\* the calls about provider p, in order
CallsAbout(p) == SelectSeq(ts_log, LAMBDA c : c.provider_id = p)

\* the token most recently saved for p and not removed since
LastSaved(p) ==
    IF CallsAbout(p) = <<>> THEN None ELSE CallsAbout(p)[Len(CallsAbout(p))].token

\* the provider_id -> token map the file holds
FileMap ==
    IF token_file.kind # "json" THEN EmptyMap
    ELSE [p \in {token_file.members[i][1] : i \in 1..Len(token_file.members)} |->
            DeserializeToken(token_file.members[
                CHOOSE i \in 1..Len(token_file.members) : token_file.members[i][1] = p][2])]

\* C21: after save and remove calls that each returned Ok, get(p) is the
\* token most recently saved for p and not removed since, None otherwise,
\* and the JSON file holds the provider_id -> token map of the store.
C21_StoreHoldsLastSaved ==
    AllCallsReturnedOk =>
        /\ \A p \in Providers : TokenStore_get(tokens, p) = LastSaved(p)
        /\ (CallsMade > 0 => token_file.kind = "json")
        /\ FileMap = tokens

\* a token was saved over another one, another provider's token was removed,
\* and every call returned Ok
C21_Witness ==
    /\ AllCallsReturnedOk
    /\ CallsMade = MaxStoreCalls
    /\ \E i, j, k \in 1..Len(ts_log) :
          /\ i < j /\ ts_log[i].op = "save" /\ ts_log[j].op = "save"
          /\ ts_log[i].provider_id = ts_log[j].provider_id
          /\ ts_log[i].token # ts_log[j].token
          /\ ts_log[j].run = "this"
          /\ ts_log[k].op = "remove" /\ ts_log[k].provider_id # ts_log[i].provider_id
          /\ ts_log[k].run = "this"
    /\ DOMAIN tokens # {}

-----------------------------------------------------------------------------
(* Properties of the adapter's authentication *)

\* the token the store held for the adapter's provider at the lookup
LookedUp ==
    IF auth.adapter.token_store /\ auth.adapter.oauth_provider \in DOMAIN auth.store
    THEN <<auth.store[auth.adapter.oauth_provider]>>
    ELSE <<>>

\* the looked-up token was within five minutes of its expiry, or past it
RefreshDue == LookedUp # <<>> /\ auth.at + 5 >= LookedUp[1].expires_at

BearerRequest(access_token) ==
    <<[header |-> "Authorization", value |-> "Bearer " \o access_token]>>

\* C22: an OAuth adapter looks up its token before the request; a token that
\* needs no refresh is sent as it is; one that needs a refresh is refreshed
\* exactly once and the new token is sent; when the refresh fails or no
\* token is stored the call returns AuthError and no request is sent, the
\* API key is never used instead.
C22_OAuthRequestCarriesToken ==
    (auth.pc # "idle" /\ auth.adapter.oauth_provider # NoneStr) =>
        /\ LookedUp = <<>> =>
              /\ auth.pc = "done"
              /\ auth.result.status = "AuthError"
              /\ auth.sent = <<>>
              /\ auth.refreshes = 0
        /\ (LookedUp # <<>> /\ ~RefreshDue) =>
              /\ auth.pc = "done"
              /\ auth.refreshes = 0
              /\ auth.sent = BearerRequest(LookedUp[1].access_token)
        /\ (RefreshDue /\ auth.pc = "refreshing") =>
              /\ auth.refreshes = 0
              /\ auth.sent = <<>>
        /\ (RefreshDue /\ auth.pc = "done") =>
              /\ auth.refreshes = 1
              /\ \/ auth.result.status = "AuthError" /\ auth.sent = <<>>
                 \/ /\ auth.result.status = "Ok"
                    /\ ts_log # <<>>
                    /\ ts_log[Len(ts_log)].op = "save"
                    /\ ts_log[Len(ts_log)].provider_id = auth.adapter.oauth_provider
                    /\ ts_log[Len(ts_log)].token[1].access_token # LookedUp[1].access_token
                    /\ auth.sent = BearerRequest(ts_log[Len(ts_log)].token[1].access_token)
        /\ \A i \in 1..Len(auth.sent) :
              auth.sent[i].value \notin {auth.adapter.api_key, "Bearer " \o auth.adapter.api_key}

\* an OAuth adapter sent its request with the token of a refresh
C22_Witness ==
    /\ auth.pc = "done"
    /\ auth.adapter.oauth_provider # NoneStr
    /\ RefreshDue
    /\ auth.refreshes = 1
    /\ auth.sent # <<>>

-----------------------------------------------------------------------------
(* Properties of the token's expiry tests *)

\* C23: needs_refresh() holds exactly when now + 5 min >= expires_at and
\* is_expired() exactly when now >= expires_at, so an expired token always
\* needs a refresh.
C23_ExpiryTests ==
    expiry.token # <<>> =>
        /\ expiry.needs_refresh <=> (expiry.at + 5 >= expiry.token[1].expires_at)
        /\ expiry.is_expired <=> (expiry.at >= expiry.token[1].expires_at)
        /\ expiry.is_expired => expiry.needs_refresh

\* a token tested exactly five minutes before its expiry: it needs a refresh
\* and is not expired
C23_Witness ==
    /\ expiry.token # <<>>
    /\ expiry.at > 0
    /\ expiry.at + 5 = expiry.token[1].expires_at
    /\ expiry.needs_refresh
    /\ ~expiry.is_expired

-----------------------------------------------------------------------------
(* Properties of the translated request *)

\* the tool_result blocks of a source message, in block order
ResultBlocksOf(msg) ==
    IF msg.content.t = "Blocks"
    THEN SelectSeq(msg.content.blocks, LAMBDA b : b.type = "tool_result")
    ELSE <<>>

\* the ids of the tool_use blocks of a source message, in block order
ToolUseIdsOf(msg) ==
    IF msg.content.t = "Blocks"
    THEN [i \in 1..Len(SelectSeq(msg.content.blocks, LAMBDA b : b.type = "tool_use")) |->
             SelectSeq(msg.content.blocks, LAMBDA b : b.type = "tool_use")[i].id]
    ELSE <<>>

OnlyToolResults(msg) ==
    /\ msg.content.t = "Blocks"
    /\ \A i \in 1..Len(msg.content.blocks) : msg.content.blocks[i].type = "tool_result"

\* seg is what the source message msg becomes: one role:tool message per
\* tool_result block, in block order, then at most one main message
DerivedFrom(msg, seg) ==
    /\ Len(seg) \in {Len(ResultBlocksOf(msg)), Len(ResultBlocksOf(msg)) + 1}
    /\ \A j \in 1..Len(ResultBlocksOf(msg)) :
          /\ seg[j].role = "tool"
          /\ seg[j].tool_call_id = ResultBlocksOf(msg)[j].tool_use_id
    /\ Len(seg) = Len(ResultBlocksOf(msg)) + 1 =>
          /\ seg[Len(seg)].role = msg.role
          /\ seg[Len(seg)].tool_call_id = NoneStr
          /\ [i \in 1..Len(seg[Len(seg)].tool_calls) |-> seg[Len(seg)].tool_calls[i].id]
                = ToolUseIdsOf(msg)
    /\ OnlyToolResults(msg) => Len(seg) = Len(ResultBlocksOf(msg))
    /\ msg.content.t = "Text" => Len(seg) = 1

\* the translated messages after the system message
TranslatedBody ==
    IF tr_request.system # <<>> THEN Tail(openai_messages) ELSE openai_messages

\* body splits into one run per source message, in source order
SplitsBySource(msgs, body) ==
    \E cut \in [0..Len(msgs) -> 0..Len(body)] :
        /\ cut[0] = 0
        /\ cut[Len(msgs)] = Len(body)
        /\ \A i \in 1..Len(msgs) :
              /\ cut[i - 1] <= cut[i]
              /\ DerivedFrom(msgs[i], SubSeq(body, cut[i - 1] + 1, cut[i]))

\* C24: each source message becomes one role:tool message per tool_result
\* block, in block order, all before the message with its remaining
\* content; source order is kept across messages; a message with only
\* tool_result blocks has no main message.
C24_ToolResultsBeforeMain ==
    tr_pc = "translated" => SplitsBySource(tr_request.messages, TranslatedBody)

\* two source messages, the second with text between and after its two tool
\* results: both role:tool messages come right before its main message
C24_Witness ==
    /\ tr_pc = "translated"
    /\ Len(tr_request.messages) = 2
    /\ tr_request.messages[1].role = "assistant"
    /\ Len(ResultBlocksOf(tr_request.messages[2])) = 2
    /\ tr_request.messages[2].content.blocks[1].type = "text"
    /\ Len(openai_messages) >= 3
    /\ openai_messages[Len(openai_messages)].role = "user"
    /\ openai_messages[Len(openai_messages) - 1].role = "tool"
    /\ openai_messages[Len(openai_messages) - 2].role = "tool"

-----------------------------------------------------------------------------
(* Properties of the adapter lookup *)

\* the adapters the index names for the model, among the registered ones
IndexedAdapters ==
    {p.name : p \in {q \in lk_registry.providers :
                        <<lk_model, q.name>> \in lk_registry.model_to_provider}}

\* the registered adapters that list the model, letter case aside
ListingAdapters ==
    {p.name : p \in {q \in lk_registry.providers :
                        \E m \in q.models : AsciiLower(m) = AsciiLower(lk_model)}}

\* C25: get_provider_for_model returns the adapter the index maps the model
\* to when that adapter is registered, otherwise a registered adapter that
\* lists the model under case-insensitive equality, whatever the adapter's
\* variant, and Err(ModelNotSupported) when there is none.
C25_LookupByIndexThenList ==
    lk_result # NoneStr =>
        IF IndexedAdapters # {} THEN lk_result \in IndexedAdapters
        ELSE IF ListingAdapters # {} THEN lk_result \in ListingAdapters
        ELSE lk_result = ModelNotSupported

-----------------------------------------------------------------------------
(* Properties of the serde round trip *)

\* the text blocks of the message content received: their positions
TextBlockPositions ==
    IF sd_input.messages[1].content.json # "array" THEN {}
    ELSE {i \in 1..Len(sd_input.messages[1].content.items) :
             sd_input.messages[1].content.items[i]["type"] = "text"}

\* the positions of the system blocks received
SystemBlockPositions ==
    IF sd_input.system = <<>> \/ sd_input.system[1].json # "array" THEN {}
    ELSE 1..Len(sd_input.system[1].items)

\* the JSON objects before and after the round trip have the same
\* cache_control member, or both have none
SameMember(before, after) ==
    /\ ("cache_control" \in DOMAIN after) <=> ("cache_control" \in DOMAIN before)
    /\ "cache_control" \in DOMAIN before => after["cache_control"] = before["cache_control"]

\* the same, a null member counting as no member
SameMemberButNull(before, after) ==
    /\ ("cache_control" \in DOMAIN after)
          <=> ("cache_control" \in DOMAIN before /\ before["cache_control"] # [json |-> "null"])
    /\ "cache_control" \in DOMAIN after => after["cache_control"] = before["cache_control"]

\* C26 as stated: after deserializing and serializing, cache_control is
\* present with the same value on a text block or system block exactly
\* when it was present in the input.
C26_CacheControlPreserved ==
    sd_pc = "serialized" =>
        /\ \A i \in TextBlockPositions :
              SameMember(sd_input.messages[1].content.items[i],
                         sd_output.messages[1].content.items[i])
        /\ \A i \in SystemBlockPositions :
              SameMember(sd_input.system[1].items[i], sd_output.system[1].items[i])

\* C26, amended: cache_control is present with the same value in the output
\* exactly when the input has it with a value other than null; it is absent
\* from the output when the input has none or has null.
C26_NonNullCacheControlPreserved ==
    sd_pc = "serialized" =>
        /\ sd_output.messages[1].content.json = sd_input.messages[1].content.json
        /\ Len(sd_output.system) = Len(sd_input.system)
        /\ \A i \in TextBlockPositions :
              SameMemberButNull(sd_input.messages[1].content.items[i],
                                sd_output.messages[1].content.items[i])
        /\ \A i \in SystemBlockPositions :
              SameMemberButNull(sd_input.system[1].items[i], sd_output.system[1].items[i])

\* a request went through with a text block that has a cache_control of two
\* members, one that has none, and a system block that has one
C26_Witness ==
    /\ sd_pc = "serialized"
    /\ \E i, j \in TextBlockPositions :
          /\ "cache_control" \in DOMAIN sd_output.messages[1].content.items[i]
          /\ sd_output.messages[1].content.items[i]["cache_control"] = [type |-> "ephemeral", ttl |-> "1h"]
          /\ "cache_control" \notin DOMAIN sd_input.messages[1].content.items[j]
          /\ "cache_control" \notin DOMAIN sd_output.messages[1].content.items[j]
    /\ \E k \in SystemBlockPositions :
          /\ "cache_control" \in DOMAIN sd_output.system[1].items[k]
          /\ sd_output.system[1].items[k] = sd_input.system[1].items[k]

-----------------------------------------------------------------------------
(* Properties of the SSE framing *)

\* the events of the upstream body when it arrives in one piece: the split
\* at line feeds, the fields of each block of lines, and a last block that
\* no blank line ends
UpstreamEvents == ParseLines(Lines(sse_input), <<>>, NoneStr, "")

\* C30: the stream emits every complete upstream event once, in upstream
\* order, whatever the split of the bytes into chunks, and what is left in
\* the buffer at the end of the upstream is emitted before the stream ends.
C30_EventsIndependentOfChunks ==
    /\ sse_done => sse_emitted = UpstreamEvents
    /\ \A i \in 1..Len(sse_emitted) :
          i <= Len(UpstreamEvents) /\ sse_emitted[i] = UpstreamEvents[i]

-----------------------------------------------------------------------------
(* C31: the subagent tag of the system prompt *)

\* the names the tags of the system texts carry
TagNames == {"DEF.M", "bg.m", "x", ""}

\* the text holds a complete tag, and the name of the first one it holds
HoldsCompleteTag(text) == \E n \in TagNames : Contains(text, Tag(n))
FirstTagName(text) ==
    CHOOSE n \in TagNames :
        /\ Contains(text, Tag(n))
        /\ \A m \in TagNames : Contains(text, Tag(m)) => Find(text, Tag(n)) <= Find(text, Tag(m))

\* the system prompt received is a sequence of at least two blocks
SystemHasSecondBlock ==
    /\ rq.system # <<>>
    /\ rq.system[1].t = "Blocks"
    /\ Len(rq.system[1].blocks) >= 2

SecondBlockText == rq.system[1].blocks[2].text

\* the second block holds a complete tag and neither the WebSearch nor the
\* Background rule applied
SubagentCase ==
    /\ Routed
    /\ SystemHasSecondBlock
    /\ HoldsCompleteTag(SecondBlockText)
    /\ ~WebSearchApplies
    /\ ~IsBackgroundRequest

\* the configured logical models whose name equals name ignoring case
ConfiguredAs(name) ==
    {i \in 1..Len(ConfigOf(snap).models) :
        EqIgnoreAsciiCase(ConfigOf(snap).models[i].name, name)}

SubagentModel(name) ==
    IF ConfiguredAs(name) = {} THEN name
    ELSE ConfigOf(snap).models[MinOf(ConfiguredAs(name))].name

\* after route the second block holds no complete tag
C31_TagRemoved ==
    SubagentCase => ~HoldsCompleteTag(routed.system[1].blocks[2].text)

\* no other system block is changed
C31_OtherBlocksKept ==
    SubagentCase =>
        /\ Len(routed.system[1].blocks) = Len(rq.system[1].blocks)
        /\ \A i \in 1..Len(rq.system[1].blocks) :
              i # 2 => routed.system[1].blocks[i] = rq.system[1].blocks[i]

\* model_name is the configured model of that name, else the name itself
C31_ModelNamed ==
    SubagentCase =>
        decision = RouteDecision(SubagentModel(FirstTagName(SecondBlockText)), "Default", NoneStr)

\* an opening tag without a closing tag changes nothing and leaves the
\* decision to the later rules
C31_UnclosedTagFallsThrough ==
    (/\ Routed
     /\ SystemHasSecondBlock
     /\ Contains(SecondBlockText, OpenTag)
     /\ ~Contains(SecondBlockText, CloseTag)) =>
        /\ routed.system = rq.system
        /\ decision.route_type = FirstApplicableRule

\* C31: when system is a block sequence with at least 2 blocks and the
\* second block's text contains a complete tag (and no WebSearch or
\* Background rule applied), after route the second block's text no longer
\* contains the tag, no other system block is changed, and model_name is
\* the configured logical model whose name equals NAME ignoring case if
\* there is one, else NAME itself; an opening tag without a closing tag is
\* not an error, changes nothing and lets routing fall through.
C31_SubagentTagRouted ==
    /\ C31_TagRemoved
    /\ C31_OtherBlocksKept
    /\ C31_ModelNamed
    /\ C31_UnclosedTagFallsThrough

-----------------------------------------------------------------------------
(* C32: thinking-block sanitization *)

Sanitized == sn_pc = "sanitized"

\* the signature of a thinking block is empty or absent
Unsigned(b) == b.signature.kind # "string" \/ b.signature.len = 0

\* a thinking block that the statement keeps
Compatible(b) ==
    \/ Unsigned(b)
    \/ sn_target /\ b.signature.kind = "string" /\ b.signature.len > 150

\* the positions of the blocks of input message i that the statement keeps
KeptPositions(i) ==
    IF sn_request[i].content.t # "Blocks" THEN {}
    ELSE {j \in 1..Len(sn_request[i].content.blocks) :
            LET b == sn_request[i].content.blocks[j]
            IN b.type = "thinking" => Compatible(b)}

\* input message i has no content after sanitization
LeftEmpty(i) ==
    IF sn_request[i].content.t = "Text" THEN sn_request[i].content.text = ""
    ELSE KeptPositions(i) = {}

\* the positions of the input messages that are not dropped
Surviving == {i \in 1..Len(sn_request) : ~LeftEmpty(i)}

\* the k-th least element of a set of numbers
RECURSIVE Nth(_, _)
Nth(S, k) == IF k = 1 THEN MinOf(S) ELSE Nth(S \ {MinOf(S)}, k - 1)

-----------------------------------------------------------------------------
(* C33: failed reloads, and the persistent part of AppState *)

\* a reload_config call returns the error page in this step
ReloadFails == reload_pc # "failed" /\ reload_pc' = "failed"

\* handle_messages takes its snapshot in this step
RequestBegins == rq_pc = "idle" /\ rq_pc' # "idle"

\* a ReloadableState that a successful reload can have built
BuiltFromValidConfig(st) ==
    /\ st.src \in {"A", "B", "C"}
    /\ RegistryBuilds(ParsedConfig(st.src))

\* C33: if a reload fails because the config file cannot be read, does not
\* parse, or the provider registry cannot be built, the active
\* ReloadableState is left unchanged and later requests keep using the
\* previous snapshot; whether a reload succeeds or fails, the token store,
\* the config path and the message tracer are never replaced.
C33_FailedReloadKeepsState ==
    [][ /\ ReloadFails => inner' = inner
        /\ inner' # inner => BuiltFromValidConfig(inner')
        /\ RequestBegins => snap' = inner
        /\ persistent' = persistent ]_vars

\* the file was changed to one whose registry cannot be built, the reload of
\* it failed, and a request that began afterwards holds the state of the
\* earlier, successful reload
C33_Witness ==
    /\ reload_pc = "failed"
    /\ config_file = "C"
    /\ inner = ReloadableState(1, "B")
    /\ rq_pc # "idle"
    /\ snap = inner
    /\ persistent = PersistentState

-----------------------------------------------------------------------------
(* C34, C38: the token store and its lock *)

\* C34: TokenStore writers (save, remove) hold the store's write lock from
\* the in-memory mutation until the JSON file has been written, so that no
\* other thread can observe through get() a map state that has not yet been
\* persisted: while no call has failed, what get() returns for a provider
\* is what the file holds for it.
C34_GetSeesOnlyPersisted ==
    (ts_read # NoRead /\ ts_read.all_ok) => ts_read.token = ts_read.on_file

\* the provider_id -> token map that a JSON text holds
MapOfJson(json) ==
    [p \in {json.members[i][1] : i \in 1..Len(json.members)} |->
        DeserializeToken(json.members[
            CHOOSE i \in 1..Len(json.members) : json.members[i][1] = p][2])]

\* C38: under any interleaving of concurrent TokenStore save and remove
\* calls, once all calls have returned Ok the content of the token file
\* equals the in-memory map: a persist that serialized an older map state
\* never overwrites the file written for a newer state (the JSON a persist
\* is about to write is always that of the current map).
C38_FileFollowsMap ==
    /\ \A c \in DOMAIN ts_serialized : MapOfJson(ts_serialized[c]) = tokens
    /\ (ts_pending = {} /\ \A i \in 1..Len(ts_log) : ts_log[i].result = "Ok") =>
          /\ token_file.kind = "json"
          /\ MapOfJson(token_file) = tokens

\* two saves for one provider and a remove for the other were made by this
\* run, the second save with another token than the first, all returned Ok
C38_Witness ==
    /\ ts_pending = {}
    /\ CallsMade = 3
    /\ \A i \in 1..Len(ts_log) : ts_log[i].result = "Ok"
    /\ \E i, j, k \in 1..Len(ts_log) :
          /\ i < j
          /\ ts_log[i].run = "this" /\ ts_log[j].run = "this" /\ ts_log[k].run = "this"
          /\ ts_log[i].op = "save" /\ ts_log[j].op = "save" /\ ts_log[k].op = "remove"
          /\ ts_log[i].provider_id = "anthropic-oauth"
          /\ ts_log[j].provider_id = "anthropic-oauth"
          /\ ts_log[k].provider_id = "openai-codex"
          /\ ts_log[i].token # ts_log[j].token
    /\ DOMAIN tokens = {"anthropic-oauth"}

\* two persist calls hold the read lock at once
PersistsOverlap == Cardinality(DOMAIN ts_serialized) >= 2

-----------------------------------------------------------------------------
(* C35: the counters LoggingSseStream logs *)

\* how many times the text p occurs in s
Occurrences(s, p) ==
    Cardinality({i \in 1..(Len(s) - Len(p) + 1) : SubSeq(s, i, i + Len(p) - 1) = p})

\* the sum of usage.output_tokens over the message_delta events of the body
OutputTokensOf(body) ==
    5 * Occurrences(body, "\"output_tokens\":5") + 7 * Occurrences(body, "\"output_tokens\":7")

\* the output-token count of the final log line is the sum over the
\* message_delta events
C35_OutputTokensCountedOnce ==
    lg_logged # None => lg_logged[1].output_tokens = OutputTokensOf(lg_input)

\* the input and cache counters are those of the message_start event
C35_InputCountersFromStart ==
    lg_logged # None =>
        /\ lg_logged[1].input_tokens = 3
        /\ lg_logged[1].cache_creation = 0
        /\ lg_logged[1].cache_read = 2

\* C35: when a LoggingSseStream ends, the output-token count it logs equals
\* the sum of usage.output_tokens over the message_delta events of the
\* stream, each event counted exactly once, however the upstream bytes were
\* split into chunks; the input and cache counters are those of the
\* stream's message_start event.
C35_LoggedCountersMatchEvents ==
    /\ C35_OutputTokensCountedOnce
    /\ C35_InputCountersFromStart

\* the body arrived in one chunk
LoggedAfterOneChunk ==
    lg_logged # None /\ lg_stats.output_tokens = OutputTokensOf(lg_input)

-----------------------------------------------------------------------------
(* C36: deltas and stops of blocks that were started *)

\* C36: every content_block_delta and every content_block_stop event of a
\* stream carries an index for which a content_block_start was emitted
\* earlier in the same stream, including when a tool-call delta brings
\* arguments for a tool index whose first chunk lacked id or function.name.
C36_DeltaAndStopFollowStart ==
    \A i \in 1..Len(events) :
        events[i].type \in {"content_block_delta", "content_block_stop"} =>
            \E j \in 1..(i - 1) :
                /\ events[j].type = "content_block_start"
                /\ events[j].index = events[i].index

-----------------------------------------------------------------------------
(* C39: what route changes in the request *)

\* route returned the subagent decision: the Subagent rule is the first
\* applicable one and the decision names the model of the tag
SubagentDecision ==
    /\ FirstApplicableRule = "Subagent"
    /\ decision = RouteDecision(SubagentModel(TagCapture(rq.system[1].blocks[2].text)),
                                "Default", NoneStr)

\* route returned the PromptRule decision of a rule with strip_match = true
StrippingDecision ==
    /\ decision.route_type = "PromptRule"
    /\ MatchingRules # {}
    /\ FirstMatchingRule.strip_match

\* a WebSearch, Background, Think or Default decision that is not the
\* subagent decision
PlainDecision ==
    /\ decision.route_type \in {"WebSearch", "Background", "Think", "Default"}
    /\ ~SubagentDecision

\* C39: route modifies request.system only when it returns the subagent
\* decision, and request.messages only when it returns a PromptRule decision
\* for a rule with strip_match = true; for every WebSearch, Background, Think
\* or Default decision the system prompt and the messages are left exactly
\* as received, a subagent tag or directive phrase in them included.
C39_RouteFrame ==
    Routed =>
        /\ routed.system # rq.system => SubagentDecision
        /\ routed.messages # rq.messages => StrippingDecision
        /\ PlainDecision => (routed.system = rq.system /\ routed.messages = rq.messages)

\* a WebSearch decision for a request whose second system block holds a
\* complete tag and whose examined text matches a stripping rule: both are
\* forwarded as received
C39_Witness ==
    /\ Routed
    /\ decision.route_type = "WebSearch"
    /\ SubagentApplies
    /\ MatchingRules # {}
    /\ FirstMatchingRule.strip_match
    /\ routed.system = rq.system
    /\ routed.messages = rq.messages

\* the subagent decision with the system prompt changed
C39_SystemChanged == Routed /\ SubagentDecision /\ routed.system # rq.system

\* a stripping decision with the messages changed
C39_MessagesChanged == Routed /\ StrippingDecision /\ routed.messages # rq.messages

-----------------------------------------------------------------------------
(* C37: one refresh exchange per token needing refresh *)

\* two calls sent the refresh token of the same stored token
SameTokenExchangedTwice ==
    \E i, j \in 1..Len(rf_sent) :
        /\ i < j
        /\ rf_sent[i].call # rf_sent[j].call
        /\ rf_sent[i].seen = rf_sent[j].seen
        /\ rf_sent[i].refresh_token = rf_sent[j].refresh_token

\* C37: when several requests for the same OAuth provider run concurrently
\* while the stored token needs refresh, at most one refresh exchange is
\* performed for that token: no two requests both send the same refresh
\* token to the token endpoint.
C37_OneExchangePerToken == ~SameTokenExchangedTwice

-----------------------------------------------------------------------------
(* C40: concurrent reloads and the version that stays active *)

AllReloadersReturned == \A h \in 1..Reloaders : rl[h].pc \in {"done", "failed"}

\* the newest file version a handler read and built a state from
NewestVersionBuilt ==
    LET built == {rl[h].version : h \in {k \in 1..Reloaders : rl[k].pc = "done"}}
    IN CHOOSE v \in built : \A w \in built : w <= v

\* C40: when several reloads run concurrently with changes of the config
\* file, after all of them have completed the active ReloadableState is the
\* one built from the most recently read version of the config file: a
\* reload that read an older version never installs its state after a
\* reload that read a newer one.
C40_NewestReadStaysActive ==
    /\ \A i, j \in 1..Len(rl_installs) : i < j => rl_installs[i] <= rl_installs[j]
    /\ (AllReloadersReturned /\ rl_installs # <<>>) =>
          Last(rl_installs) = NewestVersionBuilt

====
